---- MODULE Spec2Model ----
(***************************************************************************)
(* The wBPF static linker (wbpf/src/linker): the per-object local linker,  *)
(* then the phases of GlobalLinker::emit, as a state machine over the      *)
(* linker's own fields.  The state is the GlobalLinker (objects,           *)
(* all_functions, images, tables), the LocalObject under construction and  *)
(* the position of the driver (link_files) in its sequence of calls.       *)
(*                                                                         *)
(* Indices are the program's: object, function, section and symbol indices *)
(* count from 0 and byte offsets are byte offsets; At(s, i) reads element  *)
(* i of a Rust Vec / IndexMap kept as a TLA+ sequence.                     *)
(***************************************************************************)
EXTENDS Integers, Sequences, FiniteSets, TLC

VARIABLES
  pending,                \* link_files: the object files not yet given to add_object
  cur,                    \* LocalLinker::link: the LocalObject being built (0 or 1 of them)
  objects,                \* GlobalLinker.objects
  all_functions,          \* GlobalLinker.all_functions: ordered [key, obj_index, func_index]
  offset_table,           \* GlobalLinker.offset_table.func_offsets: ordered [name, offset]
  code_image,             \* GlobalLinker.code_image (bytes)
  data_image,             \* GlobalLinker.data_image (bytes)
  data_section_to_offset, \* GlobalLinker.data_section_to_offset: set of [obj, section, offset]
  config,                 \* GlobalLinker.config
  overflow_checks,        \* build profile: TRUE = arithmetic overflow panics, FALSE = it wraps
  image,                  \* the Image emit returned (0 or 1 of them)
  err,                    \* the error link_files returned (<<>> while there is none)
  pc,                     \* the next call of link_files / emit / link
  dev                     \* the open Device, the tasks that hold clones of it, their requests

vars == <<pending, cur, objects, all_functions, offset_table, code_image, data_image,
          data_section_to_offset, config, overflow_checks, image, err, pc, dev>>

\* the fields of the linker and of its driver
linker_vars == <<pending, cur, objects, all_functions, offset_table, code_image, data_image,
                 data_section_to_offset, config, overflow_checks, image, err, pc>>

(***************************************************************************)
(* Bounds of the model.                                                    *)
(***************************************************************************)
MaxObjects == 2
MaxBody == 3
MaxSections == 2

(***************************************************************************)
(* Program constants.                                                      *)
(***************************************************************************)
\* opcodes and opcode classes (linker/ebpf.rs)
BPF_LD == 0
BPF_LDX == 1
BPF_ST == 2
BPF_STX == 3
JA == 5
ADD64_IMM == 7
SUB64_IMM == 23
LD_DW_IMM == 24
LD_DW_REG == 121
ST_DW_REG == 123
CALL == 133
EXIT == 149
MOV32_IMM == 180
MOV64_IMM == 183
MOV64_REG == 191
ADD64_REG == 15
\* relocation types (linker/consts.rs)
R_BPF_64_64 == 1
R_BPF_64_32 == 10
\* ELF constants (goblin)
EM_BPF == 247
SHT_PROGBITS == 1
SHF_ALLOC == 2
SHF_EXECINSTR == 4
STB_LOCAL == 0
STB_GLOBAL == 1
STB_WEAK == 2
STT_FUNC == 2
SHN_UNDEF == 0

(***************************************************************************)
(* Vec / IndexMap helpers.                                                 *)
(***************************************************************************)
At(s, i) == s[i + 1]

Indices(s) == 0 .. (Len(s) - 1)

Last(s) == s[Len(s)]

RECURSIVE Flatten(_)
Flatten(ss) == IF ss = <<>> THEN <<>> ELSE Head(ss) \o Flatten(Tail(ss))

Max2(a, b) == IF a >= b THEN a ELSE b

None == <<>>

Some(x) == <<x>>

(***************************************************************************)
(* Fixed-width integers.  An i32 / i16 is kept as its signed value, a      *)
(* usize as the signed reading of its bit pattern (so a usize above        *)
(* isize::MAX is negative and compares as the larger one).  Sums that may  *)
(* leave the 32-bit range are computed on 16-bit limbs.                    *)
(***************************************************************************)
Lo16(a) == a % 65536

Hi16(a) == (a \div 65536) % 65536

\* the i32 whose bit pattern has the 16-bit halves lo, hi
I32OfLimbs(lo, hi) == lo + 65536 * (IF hi >= 32768 THEN hi - 65536 ELSE hi)

\* wrapping i32 addition
WrappingAdd32(a, b) ==
  LET l == Lo16(a) + Lo16(b)
      h == (Hi16(a) + Hi16(b) + (l \div 65536)) % 65536
  IN I32OfLimbs(l % 65536, h)

\* does a + b overflow i32
AddOverflows32(a, b) ==
  LET r == WrappingAdd32(a, b)
  IN \/ a >= 0 /\ b >= 0 /\ r < 0
     \/ a < 0 /\ b < 0 /\ r >= 0

\* u32 addition, a u32 kept as the signed reading of its bit pattern: does
\* a + b carry out of 32 bits
AddOverflowsU32(a, b) ==
  (Hi16(a) + Hi16(b) + ((Lo16(a) + Lo16(b)) \div 65536)) \div 65536 # 0

\* usize::max on the signed reading of the bit patterns
UMax(a, b) ==
  IF a < 0 /\ b < 0 THEN Max2(a, b)
  ELSE IF a < 0 THEN a
  ELSE IF b < 0 THEN b
  ELSE Max2(a, b)

(***************************************************************************)
(* Instruction codec (linker/ebpf.rs): 8 bytes, opcode, regs (dst low      *)
(* nibble, src high nibble), off i16 LE, imm i32 LE.                       *)
(***************************************************************************)
Insn(opc, dst, src, off, imm) == [opc |-> opc, dst |-> dst, src |-> src, off |-> off, imm |-> imm]

to_array(insn) ==
  << insn.opc % 256,
     (insn.src % 16) * 16 + (insn.dst % 16),
     insn.off % 256,
     (insn.off \div 256) % 256,
     insn.imm % 256,
     (insn.imm \div 256) % 256,
     (insn.imm \div 65536) % 256,
     (insn.imm \div 16777216) % 256 >>

SignedByte(b) == IF b >= 128 THEN b - 256 ELSE b

get_insn(prog, idx) ==
  LET b(k) == prog[idx * 8 + k + 1]
  IN [opc |-> b(0),
      dst |-> b(1) % 16,
      src |-> b(1) \div 16,
      off |-> b(2) + 256 * SignedByte(b(3)),
      imm |-> b(4) + 256 * b(5) + 65536 * b(6) + 16777216 * SignedByte(b(7))]


(***************************************************************************)
(* The ELF adapter (goblin + linker/elf_ext.rs).  An object file is        *)
(*   [e_machine, section_headers, syms, shdr_relocs]                       *)
(* with section_headers a sequence of [sh_type, sh_flags, sh_info, data]   *)
(* (data = the bytes of the section's file range), syms a sequence of      *)
(* [st_name, st_type, st_bind, st_shndx, st_value] (st_name already looked *)
(* up in the string table) and shdr_relocs a sequence of                   *)
(* [section, relocs], relocs a sequence of [r_offset, r_sym, r_type].      *)
(***************************************************************************)
HasSection(elf, index) == index >= 0 /\ index < Len(elf.section_headers)

HasSym(elf, index) == index >= 0 /\ index < Len(elf.syms)

HasFlag(flags, bit) == (flags \div bit) % 2 = 1

is_function(sym) == sym.st_type = STT_FUNC

\* goblin's Sym::is_import: STB_GLOBAL or STB_WEAK binding and an st_value of 0
is_import(sym) == sym.st_bind \in {STB_GLOBAL, STB_WEAK} /\ sym.st_value = 0

Ok(v) == [ok |-> TRUE, value |-> v, err |-> ""]

Err(e) == [ok |-> FALSE, value |-> <<>>, err |-> e]

(***************************************************************************)
(* LocalObject::populate_functions.                                        *)
(***************************************************************************)
ExitBytes == <<EXIT, 0, 0, 0, 0, 0, 0, 0>>

\* chunks(8).take_while(len == 8 && opc != EXIT), from byte offset p of prog
RECURSIVE TakeBody(_, _)
TakeBody(prog, p) ==
  IF p + 8 <= Len(prog) /\ prog[p + 1] # EXIT
  THEN SubSeq(prog, p + 1, p + 8) \o TakeBody(prog, p + 8)
  ELSE <<>>

\* deliberately wrong variant: the body is not closed with the canonical EXIT
FunctionBytesUnclosed(prog, st_value) == TakeBody(prog, st_value)

FunctionBytes(prog, st_value) == TakeBody(prog, st_value) \o ExitBytes

Annotate(subslice) ==
  [i \in 1 .. (Len(subslice) \div 8) |->
     [insn |-> get_insn(subslice, i - 1),
      original_offset |-> (i - 1) * 8,
      call_target_function |-> None]]

NewFunction(sym, subslice) ==
  [name |-> sym.st_name,
   section_index |-> sym.st_shndx,
   offset |-> sym.st_value,
   end_offset |-> sym.st_value + Len(subslice),
   code |-> Annotate(subslice),
   global |-> (sym.st_bind = STB_GLOBAL),
   stack_usage |-> 0,
   global_linked_offset |-> 0]

\* IndexMap::insert on LocalObject.functions (keyed by the function's name)
InsertFunction(fs, f) ==
  IF \E i \in 1 .. Len(fs) : fs[i].name = f.name
  THEN [i \in 1 .. Len(fs) |-> IF fs[i].name = f.name THEN f ELSE fs[i]]
  ELSE Append(fs, f)

RECURSIVE PopulateFrom(_, _, _)
PopulateFrom(elf, i, fs) ==
  IF i >= Len(elf.syms) THEN Ok(fs)
  ELSE LET sym == At(elf.syms, i) IN
    IF ~is_function(sym) THEN PopulateFrom(elf, i + 1, fs)
    ELSE IF ~HasSection(elf, sym.st_shndx) THEN Err("invalid section index")
    ELSE LET prog == At(elf.section_headers, sym.st_shndx).data IN
      IF sym.st_value > Len(prog) THEN Err("function out of range")
      ELSE PopulateFrom(elf, i + 1,
             InsertFunction(fs, NewFunction(sym, FunctionBytes(prog, sym.st_value))))

populate_functions_result(elf) == PopulateFrom(elf, 0, <<>>)

(***************************************************************************)
(* LocalObject::populate_reloc.                                            *)
(***************************************************************************)
\* function_lookup_table.range((s, 0) ..= (s, r_offset)).rev().next(), then the
\* end_offset test: Some(func_index) or None
LookupFunction(fs, s, r_offset) ==
  LET cand == {k \in Indices(fs) : At(fs, k).section_index = s /\ At(fs, k).offset <= r_offset}
  IN IF cand = {} THEN None
     ELSE LET best == CHOOSE k \in cand :
                        /\ \A j \in cand : At(fs, j).offset <= At(fs, k).offset
                        /\ \A j \in cand : At(fs, j).offset = At(fs, k).offset => j <= k
          IN IF At(fs, best).end_offset > r_offset THEN Some(best) ELSE None

\* IndexMap::insert on LocalObject.reloc (keyed by (func_index, offset))
InsertReloc(rs, e) ==
  IF \E i \in 1 .. Len(rs) : rs[i].func_index = e.func_index /\ rs[i].offset = e.offset
  THEN [i \in 1 .. Len(rs) |->
          IF rs[i].func_index = e.func_index /\ rs[i].offset = e.offset THEN e ELSE rs[i]]
  ELSE Append(rs, e)

RECURSIVE RelocsOfSection(_, _, _, _)
RelocsOfSection(fs, link_section_index, relocs, rs) ==
  IF relocs = <<>> THEN rs
  ELSE LET reloc == Head(relocs)
           target == LookupFunction(fs, link_section_index, reloc.r_offset)
       IN IF target = None
          THEN RelocsOfSection(fs, link_section_index, Tail(relocs), rs)
          ELSE RelocsOfSection(fs, link_section_index, Tail(relocs),
                 InsertReloc(rs, [func_index |-> target[1],
                                  offset |-> reloc.r_offset - At(fs, target[1]).offset,
                                  reloc |-> reloc]))

RECURSIVE PopulateRelocFrom(_, _, _, _)
PopulateRelocFrom(elf, fs, i, rs) ==
  IF i >= Len(elf.shdr_relocs) THEN Ok(rs)
  ELSE LET rsec == At(elf.shdr_relocs, i) IN
    IF ~HasSection(elf, rsec.section) THEN Err("invalid section index")
    ELSE PopulateRelocFrom(elf, fs, i + 1,
           RelocsOfSection(fs, At(elf.section_headers, rsec.section).sh_info, rsec.relocs, rs))

populate_reloc_result(elf, fs) == PopulateRelocFrom(elf, fs, 0, <<>>)

(***************************************************************************)
(* LocalObject::calculate_stack_usage.                                     *)
(***************************************************************************)
\* (-off) as usize for an i16 off < 0; -(-32768) overflows i16
NegOffOverflows(off) == off = -32768

NegOffAsUsize(off) == IF off = -32768 THEN -32768 ELSE -off

\* deliberately wrong variant: the stores seen before are forgotten
AssumeMaxStackOnly(stack_usage) == 512

\* stack_usage.max(512) where r10 escapes
AssumeMaxStack(stack_usage) == UMax(stack_usage, 512)

\* the scan of one function from instruction i with the running maximum su
RECURSIVE ScanStack(_, _, _, _)
ScanStack(code, i, su, oc) ==
  IF i > Len(code) THEN Ok(su)
  ELSE LET insn == code[i].insn
           op_class == insn.opc % 8
       IN IF op_class = BPF_ST \/ op_class = BPF_STX
          THEN IF insn.dst = 10
               THEN IF insn.off >= 0
                    THEN ScanStack(code, i + 1, su, oc)
                    ELSE IF NegOffOverflows(insn.off) /\ oc
                         THEN Err("panic: attempt to negate with overflow")
                         ELSE ScanStack(code, i + 1, UMax(NegOffAsUsize(insn.off), su), oc)
               ELSE ScanStack(code, i + 1, su, oc)
          ELSE IF op_class = BPF_LD \/ op_class = BPF_LDX
               THEN ScanStack(code, i + 1, su, oc)
               ELSE IF insn.src = 10
                    THEN Ok(AssumeMaxStack(su))
                    ELSE ScanStack(code, i + 1, su, oc)

function_stack_usage(func, oc) == ScanStack(func.code, 1, 0, oc)

calculate_stack_usage_result(fs, oc) ==
  IF \E i \in 1 .. Len(fs) : ~function_stack_usage(fs[i], oc).ok
  THEN Err("panic: attempt to negate with overflow")
  ELSE Ok([i \in 1 .. Len(fs) |->
             [fs[i] EXCEPT !.stack_usage = function_stack_usage(fs[i], oc).value]])

(***************************************************************************)
(* LocalObject::patch_callee_saved_regs.                                   *)
(***************************************************************************)
Synthetic(insn) == [insn |-> insn, original_offset |-> -1, call_target_function |-> None]

\* deliberately wrong variant: a register read (src) counts as used too
NeedSaveAnyUse(code) ==
  LET used == {r \in 6 .. 9 :
                 \E i \in 1 .. Len(code) : code[i].insn.dst = r \/ code[i].insn.src = r}
      RECURSIVE Asc(_)
      Asc(r) == IF r > 9 THEN <<>>
                ELSE (IF r \in used THEN <<r>> ELSE <<>>) \o Asc(r + 1)
  IN Asc(6)

\* need_save, as the ascending sequence of the registers to save
NeedSave(code) ==
  LET used == {r \in 6 .. 9 : \E i \in 1 .. Len(code) : code[i].insn.dst = r}
      RECURSIVE Asc(_)
      Asc(r) == IF r > 9 THEN <<>>
                ELSE (IF r \in used THEN <<r>> ELSE <<>>) \o Asc(r + 1)
  IN Asc(6)

Prepend(regs) ==
  [c \in 1 .. Len(regs) |-> Synthetic(Insn(ST_DW_REG, 10, regs[c], (c - 1) * 8, 0))]

\* deliberately wrong variant: the registers are reloaded in the reverse order, stack-like
AppendRestoreReversed(regs) ==
  [c \in 1 .. Len(regs) |->
     Synthetic(Insn(LD_DW_REG, regs[Len(regs) + 1 - c], 10, (Len(regs) - c) * 8, 0))]

AppendRestore(regs) ==
  [c \in 1 .. Len(regs) |-> Synthetic(Insn(LD_DW_REG, regs[c], 10, (c - 1) * 8, 0))]

\* deliberately wrong variant: the immediate of the opening SUB64_IMM is negated
PrologueHeadNegated(count) == Synthetic(Insn(SUB64_IMM, 10, 0, 0, -(count * 8)))

PrologueHead(count) == Synthetic(Insn(SUB64_IMM, 10, 0, 0, count * 8))

EpilogueTail(count) == Synthetic(Insn(ADD64_IMM, 10, 0, 0, count * 8))

patch_function(func) ==
  IF func.code = <<>> \/ Last(func.code).insn.opc # EXIT THEN func
  ELSE LET regs == NeedSave(func.code)
           count == Len(regs)
       IN IF count = 0 THEN func
          ELSE [func EXCEPT !.code =
                  <<PrologueHead(count)>> \o Prepend(regs)
                  \o SubSeq(func.code, 1, Len(func.code) - 1)
                  \o AppendRestore(regs)
                  \o <<EpilogueTail(count)>>
                  \o <<Last(func.code)>>]

patch_callee_saved_regs_result(fs) == [i \in 1 .. Len(fs) |-> patch_function(fs[i])]

(***************************************************************************)
(* GlobalLinker::emit_data.                                                *)
(***************************************************************************)
IsDataSection(shdr) ==
  /\ shdr.sh_type = SHT_PROGBITS
  /\ HasFlag(shdr.sh_flags, SHF_ALLOC)
  /\ ~HasFlag(shdr.sh_flags, SHF_EXECINSTR)

\* one step of the two nested loops: object obj_idx, section section_index;
\* st = [ok, data_image, data_section_to_offset]; data_offset as u32 +
\* host_platform.data_offset is a u32 addition
RECURSIVE EmitDataFrom(_, _, _, _, _, _)
EmitDataFrom(objs, data_offset_cfg, oc, obj_idx, section_index, st) ==
  IF obj_idx >= Len(objs) THEN st
  ELSE LET elf == At(objs, obj_idx).elf IN
    IF section_index >= Len(elf.section_headers)
    THEN EmitDataFrom(objs, data_offset_cfg, oc, obj_idx + 1, 0, st)
    ELSE LET shdr == At(elf.section_headers, section_index) IN
      IF IsDataSection(shdr)
      THEN IF AddOverflowsU32(Len(st.data_image), data_offset_cfg) /\ oc
           THEN [st EXCEPT !.ok = FALSE]
           ELSE EmitDataFrom(objs, data_offset_cfg, oc, obj_idx, section_index + 1,
                  [ok |-> TRUE,
                   data_image |-> st.data_image \o shdr.data,
                   data_section_to_offset |->
                     {e \in st.data_section_to_offset :
                        ~(e.obj = obj_idx /\ e.section = section_index)}
                     \cup {[obj |-> obj_idx, section |-> section_index,
                            offset |-> WrappingAdd32(Len(st.data_image), data_offset_cfg)]}])
      ELSE EmitDataFrom(objs, data_offset_cfg, oc, obj_idx, section_index + 1, st)

emit_data_result(objs, cfg, oc, dimg, dso) ==
  EmitDataFrom(objs, cfg.host_platform.data_offset, oc, 0, 0,
               [ok |-> TRUE, data_image |-> dimg, data_section_to_offset |-> dso])

\* data_section_to_offset.get(&(obj, section))
\* deliberately wrong variant: a section without a recorded base counts as placed at 0
DataBaseOrZero(dso, obj, section) ==
  IF \E e \in dso : e.obj = obj /\ e.section = section
  THEN Some((CHOOSE e \in dso : e.obj = obj /\ e.section = section).offset)
  ELSE Some(0)

DataBase(dso, obj, section) ==
  IF \E e \in dso : e.obj = obj /\ e.section = section
  THEN Some((CHOOSE e \in dso : e.obj = obj /\ e.section = section).offset)
  ELSE None

(***************************************************************************)
(* GlobalLinker::populate_all_functions.                                   *)
(***************************************************************************)
QualifiedName(object_name, func_name) == object_name \o ":" \o func_name

\* deliberately wrong variant: a non-global function is not qualified with its object's name
FunctionKeyBare(obj, func) == func.name

FunctionKey(obj, func) ==
  IF func.global THEN func.name ELSE QualifiedName(obj.name, func.name)

\* all_functions.get(key): Some(position) or None
GetFunction(af, key) ==
  IF \E i \in 1 .. Len(af) : af[i].key = key
  THEN Some(CHOOSE i \in 1 .. Len(af) : af[i].key = key)
  ELSE None

RECURSIVE PopulateAllFrom(_, _, _, _)
PopulateAllFrom(objs, obj_idx, func_idx, af) ==
  IF obj_idx >= Len(objs) THEN Ok(af)
  ELSE LET obj == At(objs, obj_idx) IN
    IF func_idx >= Len(obj.functions) THEN PopulateAllFrom(objs, obj_idx + 1, 0, af)
    ELSE LET func_name == FunctionKey(obj, At(obj.functions, func_idx))
             hit == GetFunction(af, func_name)
         IN IF hit # None
            THEN [ok |-> FALSE, value |-> <<>>,
                  err |-> "multiple definitions of function",
                  function |-> func_name,
                  first |-> At(objs, af[hit[1]].obj_index).name,
                  second |-> obj.name]
            ELSE PopulateAllFrom(objs, obj_idx, func_idx + 1,
                   Append(af, [key |-> func_name, obj_index |-> obj_idx,
                               func_index |-> func_idx]))

populate_all_functions_result(objs, af) == PopulateAllFrom(objs, 0, 0, af)

(***************************************************************************)
(* GlobalLinker::resolve_pseudo_calls.  call_target_function is None or    *)
(* the pair <<object_index, func_index>>.                                  *)
(***************************************************************************)
\* object_reloc position of key (func_index, offset): Some(position) or None
RelocPos(rs, func_index, offset) ==
  IF \E i \in 1 .. Len(rs) : rs[i].func_index = func_index /\ rs[i].offset = offset
  THEN Some(CHOOSE i \in 1 .. Len(rs) : rs[i].func_index = func_index /\ rs[i].offset = offset)
  ELSE None

\* IndexMap::remove (swap_remove): the last entry takes the removed one's place
SwapRemove(rs, pos) ==
  IF pos = Len(rs) THEN SubSeq(rs, 1, Len(rs) - 1)
  ELSE SubSeq([rs EXCEPT ![pos] = Last(rs)], 1, Len(rs) - 1)

\* all_functions.get(sym_name).or_else(|| all_functions.get("object:sym_name"))
LookupCallee(af, object_name, sym_name) ==
  IF GetFunction(af, sym_name) # None THEN GetFunction(af, sym_name)
  ELSE GetFunction(af, QualifiedName(object_name, sym_name))

\* deliberately wrong variant: target_machine.helpers is consulted first
LookupHelperMachineFirst(cfg, sym_name) ==
  IF sym_name \in DOMAIN cfg.target_machine.helpers
  THEN Some(cfg.target_machine.helpers[sym_name])
  ELSE IF sym_name \in DOMAIN cfg.host_platform.helpers
       THEN Some(cfg.host_platform.helpers[sym_name])
       ELSE None

\* host_platform.helpers.get(name).or_else(|| target_machine.helpers.get(name))
LookupHelper(cfg, sym_name) ==
  IF sym_name \in DOMAIN cfg.host_platform.helpers
  THEN Some(cfg.host_platform.helpers[sym_name])
  ELSE IF sym_name \in DOMAIN cfg.target_machine.helpers
       THEN Some(cfg.target_machine.helpers[sym_name])
       ELSE None

\* function_map[(obj_index, section)].get(offset): the func_index of the last
\* function of all_functions that starts there, Some(func_index) or None
FunctionMapGet(objs, af, obj_index, section, offset) ==
  LET hits == {i \in 1 .. Len(af) :
                 /\ af[i].obj_index = obj_index
                 /\ At(At(objs, obj_index).functions, af[i].func_index).section_index = section
                 /\ At(At(objs, obj_index).functions, af[i].func_index).offset = offset}
  IN IF hits = {} THEN None
     ELSE Some(af[CHOOSE i \in hits : \A j \in hits : j <= i].func_index)

\* (imm + 1) * 8 on i32
Mul8Wrapping(x) ==
  I32OfLimbs((Lo16(x) * 8) % 65536, (Hi16(x) * 8 + ((Lo16(x) * 8) \div 65536)) % 65536)

RelTargetOverflows(imm) ==
  \/ imm = 2147483647
  \/ imm + 1 >= 268435456
  \/ imm + 1 < -268435456

\* deliberately wrong variant: the displacement counts from the call itself, not from the
\* instruction behind it
RelTargetFromCall(func_offset, original_offset, imm) ==
  LET t == func_offset + original_offset + Mul8Wrapping(imm)
  IN IF t < 0 THEN -1 ELSE t

\* func.offset + original_offset + (imm + 1) * 8, as usize (-1: not a usize any
\* function offset equals)
RelTarget(func_offset, original_offset, imm) ==
  LET t == func_offset + original_offset + Mul8Wrapping(WrappingAdd32(imm, 1))
  IN IF t < 0 THEN -1 ELSE t

\* deliberately wrong variant: the helper index is stored, the pseudo-call mark stays
BindHelperMarked(insn, helper_index) == [insn EXCEPT !.insn.imm = helper_index]

\* insn.insn.imm = *helper_index; insn.insn.src = 0
BindHelper(insn, helper_index) == [insn EXCEPT !.insn.imm = helper_index, !.insn.src = 0]

\* the outcome for one pseudo-call instruction: [ok, err, insn, reloc]
resolve_one_call(objs, af, cfg, oc, obj_index, func_index, insn) ==
  LET object == At(objs, obj_index)
      func == At(object.functions, func_index)
      pos == RelocPos(object.reloc, func_index, insn.original_offset)
  IN IF pos # None
     THEN LET reloc == object.reloc[pos[1]].reloc
              removed == SwapRemove(object.reloc, pos[1])
          IN IF ~HasSym(object.elf, reloc.r_sym)
             THEN [ok |-> FALSE, err |-> "invalid symbol index", insn |-> insn, reloc |-> removed]
             ELSE LET sym == At(object.elf.syms, reloc.r_sym)
                      callee == LookupCallee(af, object.name, sym.st_name)
                      helper == LookupHelper(cfg, sym.st_name)
                  IN IF callee # None
                     THEN [ok |-> TRUE, err |-> "", reloc |-> removed,
                           insn |-> [insn EXCEPT !.call_target_function =
                                       <<af[callee[1]].obj_index, af[callee[1]].func_index>>]]
                     ELSE IF is_import(sym) /\ helper # None
                          THEN [ok |-> TRUE, err |-> "", reloc |-> removed,
                                insn |-> BindHelper(insn, helper[1])]
                          ELSE [ok |-> FALSE, err |-> "unresolved pseudo call",
                                insn |-> insn, reloc |-> removed]
     ELSE IF RelTargetOverflows(insn.insn.imm) /\ oc
          THEN [ok |-> FALSE, err |-> "panic: arithmetic overflow",
                insn |-> insn, reloc |-> object.reloc]
          ELSE LET target == FunctionMapGet(objs, af, obj_index, func.section_index,
                               RelTarget(func.offset, insn.original_offset, insn.insn.imm))
               IN IF target = None
                  THEN [ok |-> FALSE, err |-> "missing function at target offset",
                        insn |-> insn, reloc |-> object.reloc]
                  ELSE [ok |-> TRUE, err |-> "", reloc |-> object.reloc,
                        insn |-> [insn EXCEPT !.call_target_function =
                                    <<obj_index, target[1]>>]]

\* the loops over all_functions (position fi) and the function's code (ii)
RECURSIVE ResolveCallsFrom(_, _, _, _, _, _)
ResolveCallsFrom(objs, af, cfg, oc, fi, ii) ==
  IF fi >= Len(af) THEN Ok(objs)
  ELSE LET e == At(af, fi)
           func == At(At(objs, e.obj_index).functions, e.func_index)
       IN IF ii > Len(func.code) THEN ResolveCallsFrom(objs, af, cfg, oc, fi + 1, 1)
          ELSE IF func.code[ii].insn.opc = CALL /\ func.code[ii].insn.src = 1
               THEN LET r == resolve_one_call(objs, af, cfg, oc, e.obj_index, e.func_index,
                                              func.code[ii])
                    IN IF ~r.ok THEN Err(r.err)
                       ELSE ResolveCallsFrom(
                              [objs EXCEPT
                                 ![e.obj_index + 1].reloc = r.reloc,
                                 ![e.obj_index + 1].functions[e.func_index + 1].code[ii] = r.insn],
                              af, cfg, oc, fi, ii + 1)
               ELSE ResolveCallsFrom(objs, af, cfg, oc, fi, ii + 1)

resolve_pseudo_calls_result(objs, af, cfg, oc) == ResolveCallsFrom(objs, af, cfg, oc, 0, 1)

(***************************************************************************)
(* GlobalLinker::resolve_generic_relocs.                                   *)
(***************************************************************************)
\* (imm_lo as u64) | ((imm_hi as u64) << 32), as four 16-bit limbs, low first:
\* `as u64` sign-extends an i32
CombineImm64(imm_lo, imm_hi) ==
  IF imm_lo < 0
  THEN <<Lo16(imm_lo), Hi16(imm_lo), 65535, 65535>>
  ELSE <<Lo16(imm_lo), Hi16(imm_lo), Lo16(imm_hi), Hi16(imm_hi)>>

\* value + this_offset on u64 limbs: five limbs, the fifth is the carry out
AddU64(v, t) ==
  LET s1 == v[1] + Lo16(t)
      s2 == v[2] + Hi16(t) + (s1 \div 65536)
      s3 == v[3] + (s2 \div 65536)
      s4 == v[4] + (s3 \div 65536)
  IN <<s1 % 65536, s2 % 65536, s3 % 65536, s4 % 65536, s4 \div 65536>>

\* the instruction index a relocation keyed by offset_in_func is applied to
RelocInsnIndex(offset_in_func) == offset_in_func \div 8

\* one relocation entry ent of object obj_index: [ok, err, functions]
apply_generic_reloc(object, obj_index, dso, oc, ent) ==
  LET elf == object.elf
      fs == object.functions
      fail(e) == [ok |-> FALSE, err |-> e, functions |-> fs]
  IN IF ~HasSym(elf, ent.reloc.r_sym) THEN fail("invalid symbol index")
     ELSE LET sym == At(elf.syms, ent.reloc.r_sym)
              base == DataBase(dso, obj_index, sym.st_shndx)
          IN IF sym.st_bind # STB_LOCAL
             THEN fail("non-local data relocation is not supported")
             ELSE IF base = None THEN fail("data offset not found")
             ELSE IF AddOverflowsU32(base[1], sym.st_value) /\ oc
                  THEN fail("panic: attempt to add with overflow")
             ELSE LET this_offset == WrappingAdd32(base[1], sym.st_value)
                      code == At(fs, ent.func_index).code
                      this_insn_index == RelocInsnIndex(ent.offset)
                      next_insn_index == this_insn_index + 1
                  IN IF ent.reloc.r_type = R_BPF_64_64
                     THEN IF next_insn_index >= Len(code)
                          THEN fail("panic: index out of bounds")
                          ELSE LET sum == AddU64(CombineImm64(At(code, this_insn_index).insn.imm,
                                                              At(code, next_insn_index).insn.imm),
                                                 this_offset)
                               IN IF sum[5] # 0 /\ oc THEN fail("panic: arithmetic overflow")
                                  ELSE [ok |-> TRUE, err |-> "",
                                        functions |->
                                          [fs EXCEPT
                                             ![ent.func_index + 1].code[this_insn_index + 1].insn.imm =
                                               I32OfLimbs(sum[1], sum[2]),
                                             ![ent.func_index + 1].code[next_insn_index + 1].insn.imm =
                                               I32OfLimbs(sum[3], sum[4])]]
                     ELSE IF ent.reloc.r_type = R_BPF_64_32
                          THEN IF this_insn_index >= Len(code)
                               THEN fail("panic: index out of bounds")
                               ELSE LET value == At(code, this_insn_index).insn.imm
                                    IN IF AddOverflows32(value, this_offset) /\ oc
                                       THEN fail("panic: arithmetic overflow")
                                       ELSE [ok |-> TRUE, err |-> "",
                                             functions |->
                                               [fs EXCEPT
                                                  ![ent.func_index + 1].code[this_insn_index + 1].insn.imm =
                                                    WrappingAdd32(value, this_offset)]]
                          ELSE fail("unsupported relocation type")

RECURSIVE GenericRelocsFrom(_, _, _, _, _)
GenericRelocsFrom(objs, dso, oc, obj_index, ri) ==
  IF obj_index >= Len(objs) THEN Ok(objs)
  ELSE LET object == At(objs, obj_index) IN
    IF ri > Len(object.reloc) THEN GenericRelocsFrom(objs, dso, oc, obj_index + 1, 1)
    ELSE LET r == apply_generic_reloc(object, obj_index, dso, oc, object.reloc[ri])
         IN IF ~r.ok THEN Err(r.err)
            ELSE GenericRelocsFrom([objs EXCEPT ![obj_index + 1].functions = r.functions],
                                   dso, oc, obj_index, ri + 1)

resolve_generic_relocs_result(objs, dso, oc) == GenericRelocsFrom(objs, dso, oc, 0, 1)

(***************************************************************************)
(* GlobalLinker::global_dce.  Nodes are positions (from 0) in              *)
(* all_functions.                                                          *)
(***************************************************************************)
FuncOf(objs, e) == At(At(objs, e.obj_index).functions, e.func_index)

\* fn_to_index[&target]
FnToIndex(af, target) ==
  CHOOSE k \in Indices(af) : At(af, k).obj_index = target[1] /\ At(af, k).func_index = target[2]

RootIndices(af, roots) == {k \in Indices(af) : \E r \in 1 .. Len(roots) : roots[r] = At(af, k).key}

CallTargets(func) ==
  {func.code[n].call_target_function :
     n \in {m \in 1 .. Len(func.code) : func.code[m].call_target_function # None}}

Edges(objs, af) ==
  UNION {{<<i, FnToIndex(af, t)>> : t \in CallTargets(FuncOf(objs, At(af, i)))} :
           i \in Indices(af)}

\* DiGraph::from_edges creates the nodes 0 .. the largest index an edge names
NodeCount(edges) ==
  IF edges = {} THEN 0
  ELSE 1 + (CHOOSE m \in {e[1] : e \in edges} \cup {e[2] : e \in edges} :
              \A e \in edges : e[1] <= m /\ e[2] <= m)

\* deliberately wrong variant: every node that has an edge counts as visited
DfsReachAnyEdge(edges, seen) == seen \cup {e[1] : e \in edges} \cup {e[2] : e \in edges}

\* deliberately wrong variant: the roots are visited, their callees are not
DfsReachRootsOnly(edges, seen) == seen

RECURSIVE DfsReach(_, _)
DfsReach(edges, seen) ==
  LET more == {e[2] : e \in {x \in edges : x[1] \in seen}} \ seen
  IN IF more = {} THEN seen ELSE DfsReach(edges, seen \cup more)

\* Dfs::next marks a node in a bit set of NodeCount bits; marking beyond it panics
global_dce_result(objs, af, roots) ==
  LET root_indices == RootIndices(af, roots)
      edges == Edges(objs, af)
      used == DfsReach(edges, root_indices)
      tagged == [k \in 1 .. Len(af) |-> [e |-> af[k], index |-> k - 1]]
      kept == SelectSeq(tagged, LAMBDA x : x.index \in used)
  IN IF \E r \in root_indices : r >= NodeCount(edges)
     THEN Err("panic: put at index exceeds fixbitset size")
     ELSE Ok([k \in 1 .. Len(kept) |-> kept[k].e])

(***************************************************************************)
(* GlobalLinker::emit_entry_trampoline and emit_code_image.                *)
(***************************************************************************)
TrampolineInsns ==
  <<Insn(MOV32_IMM, 10, 0, 0, 0)>>
  \o [r \in 1 .. 10 |-> Insn(LD_DW_REG, r - 1, 10, 8 * (r - 1), 0)]
  \o <<Insn(ADD64_IMM, 10, 0, 0, 80), Insn(JA, 0, 1, 0, 0)>>

Encode(insns) == Flatten([i \in 1 .. Len(insns) |-> to_array(insns[i])])

emit_entry_trampoline_result(cimg) == cimg \o Encode(TrampolineInsns)

\* deliberately wrong variant: the closing instruction of a function is not emitted
FunctionImageOpen(func) ==
  Flatten([i \in 1 .. (Len(func.code) - 1) |-> to_array(func.code[i].insn)])

FunctionImage(func) == Flatten([i \in 1 .. Len(func.code) |-> to_array(func.code[i].insn)])

\* st = [objects, code_image]
RECURSIVE EmitCodeFrom(_, _, _)
EmitCodeFrom(af, fi, st) ==
  IF fi >= Len(af) THEN st
  ELSE LET e == At(af, fi) IN
    EmitCodeFrom(af, fi + 1,
      [objects |-> [st.objects EXCEPT
                      ![e.obj_index + 1].functions[e.func_index + 1].global_linked_offset =
                        Len(st.code_image)],
       code_image |-> st.code_image \o FunctionImage(FuncOf(st.objects, e))])

emit_code_image_result(objs, af, cimg) ==
  EmitCodeFrom(af, 0, [objects |-> objs, code_image |-> cimg])

(***************************************************************************)
(* GlobalLinker::rewrite_image_call_return.                                *)
(***************************************************************************)
\* code_image[at .. at + 8].copy_from_slice(bytes)
CopyFromSlice(cimg, at, bytes) ==
  [i \in 1 .. Len(cimg) |-> IF i > at /\ i <= at + 8 THEN bytes[i - at] ELSE cimg[i]]

\* deliberately wrong variant: the displacement is not checked, `diff as i16`
FitsUnchecked(x) == TRUE

FitsI16(x) == x >= -32768 /\ x <= 32767

CallDiff(target_offset, this_offset) == ((target_offset - this_offset) \div 8) - 1

\* deliberately wrong variant: the slot of the return address is not counted
CallJaBareFrame(func, diff) == Insn(JA, 0, 2, diff, -func.stack_usage)

CallJa(func, diff) == Insn(JA, 0, 2, diff, -(func.stack_usage + 8))

ReturnJa == Insn(JA, 0, 1, 0, 0)

\* the rewrite of the call at this_offset of func to the function at
\* target_offset: the 8 bytes of the JA, or the error
rewrite_call(func, this_offset, target_offset) ==
  LET diff == CallDiff(target_offset, this_offset)
  IN IF FitsI16(diff) THEN Ok(to_array(CallJa(func, diff)))
     ELSE Err("call target offset is too far away")

RECURSIVE RewriteFrom(_, _, _, _, _)
RewriteFrom(objs, af, fi, i, cimg) ==
  IF fi >= Len(af) THEN Ok(cimg)
  ELSE LET func == FuncOf(objs, At(af, fi)) IN
    IF i >= Len(func.code) THEN RewriteFrom(objs, af, fi + 1, 0, cimg)
    ELSE LET insn == At(func.code, i)
             this_offset == func.global_linked_offset + i * 8
             target == insn.call_target_function
             ja == rewrite_call(func, this_offset,
                                FuncOf(objs, At(af, FnToIndex(af, target))).global_linked_offset)
             called == IF target = None THEN cimg
                       ELSE CopyFromSlice(cimg, this_offset, ja.value)
             returned == IF insn.insn.opc = EXIT
                         THEN CopyFromSlice(called, this_offset, to_array(ReturnJa))
                         ELSE called
         IN IF target # None /\ ~ja.ok
            THEN Err(ja.err)
            ELSE RewriteFrom(objs, af, fi, i + 1, returned)

rewrite_image_call_return_result(objs, af, cimg) == RewriteFrom(objs, af, 0, 0, cimg)

\* deliberately wrong variant: the offsets are taken from the start of the function area, behind
\* the 104 bytes of the trampoline
emit_offset_table_relative(objs, af, table) ==
  LET names == {FuncOf(objs, af[k]).name : k \in 1 .. Len(af)}
      last(n) == CHOOSE k \in 1 .. Len(af) :
                   /\ FuncOf(objs, af[k]).name = n
                   /\ \A j \in 1 .. Len(af) : FuncOf(objs, af[j]).name = n => j <= k
  IN [n \in names \cup DOMAIN table |->
        IF n \in names THEN FuncOf(objs, af[last(n)]).global_linked_offset - 104
        ELSE table[n]]

(***************************************************************************)
(* GlobalLinker::emit_offset_table: func_offsets as a function from names  *)
(* to offsets; of the functions that share a name the last one is kept.    *)
(***************************************************************************)
emit_offset_table_result(objs, af, table) ==
  LET names == {FuncOf(objs, af[k]).name : k \in 1 .. Len(af)}
      last(n) == CHOOSE k \in 1 .. Len(af) :
                   /\ FuncOf(objs, af[k]).name = n
                   /\ \A j \in 1 .. Len(af) : FuncOf(objs, af[j]).name = n => j <= k
  IN [n \in names \cup DOMAIN table |->
        IF n \in names THEN FuncOf(objs, af[last(n)]).global_linked_offset ELSE table[n]]

(***************************************************************************)
(* The steps of link_files: add_object (the four passes of                 *)
(* LocalLinker::link) for every object file, then the phases of emit.      *)
(***************************************************************************)
\* an Err (or a panic) leaves link_files: nothing is returned
Fail(e) ==
  /\ pc' = "failed"
  /\ err' = e
  /\ UNCHANGED <<pending, cur, objects, all_functions, offset_table, code_image, data_image,
                 data_section_to_offset, config, overflow_checks, image, dev>>

\* add_object .. LocalLinker::link: Elf::parse, the machine check, populate_functions
populate_functions ==
  /\ pc = "add_object"
  /\ UNCHANGED dev
  /\ pending # <<>>
  /\ LET in == Head(pending)
         r == populate_functions_result(in.elf)
     IN IF in.elf.e_machine # EM_BPF THEN Fail(<<"not a BPF image">>)
        ELSE IF ~r.ok THEN Fail(<<r.err>>)
        ELSE /\ cur' = Some([name |-> in.name, elf |-> in.elf,
                             functions |-> r.value, reloc |-> <<>>])
             /\ pending' = Tail(pending)
             /\ pc' = "populate_reloc"
             /\ UNCHANGED <<objects, all_functions, offset_table, code_image, data_image,
                            data_section_to_offset, config, overflow_checks, image, err>>

populate_reloc ==
  /\ pc = "populate_reloc"
  /\ UNCHANGED dev
  /\ LET r == populate_reloc_result(cur[1].elf, cur[1].functions)
     IN IF ~r.ok THEN Fail(<<r.err>>)
        ELSE /\ cur' = Some([cur[1] EXCEPT !.reloc = r.value])
             /\ pc' = "calculate_stack_usage"
             /\ UNCHANGED <<pending, objects, all_functions, offset_table, code_image,
                            data_image, data_section_to_offset, config, overflow_checks,
                            image, err>>

calculate_stack_usage ==
  /\ pc = "calculate_stack_usage"
  /\ UNCHANGED dev
  /\ LET r == calculate_stack_usage_result(cur[1].functions, overflow_checks)
     IN IF ~r.ok THEN Fail(<<r.err>>)
        ELSE /\ cur' = Some([cur[1] EXCEPT !.functions = r.value])
             /\ pc' = "patch_callee_saved_regs"
             /\ UNCHANGED <<pending, objects, all_functions, offset_table, code_image,
                            data_image, data_section_to_offset, config, overflow_checks,
                            image, err>>

\* the last pass of link, and add_object's push of the finished object
patch_callee_saved_regs ==
  /\ pc = "patch_callee_saved_regs"
  /\ UNCHANGED dev
  /\ objects' = Append(objects,
                  [cur[1] EXCEPT !.functions = patch_callee_saved_regs_result(cur[1].functions)])
  /\ cur' = None
  /\ pc' = "add_object"
  /\ UNCHANGED <<pending, all_functions, offset_table, code_image, data_image,
                 data_section_to_offset, config, overflow_checks, image, err>>

\* emit begins when every object has been added
emit_data ==
  /\ pc = "add_object"
  /\ UNCHANGED dev
  /\ pending = <<>>
  /\ LET r == emit_data_result(objects, config, overflow_checks, data_image,
                               data_section_to_offset)
     IN IF ~r.ok THEN Fail(<<"panic: attempt to add with overflow">>)
        ELSE /\ data_image' = r.data_image
             /\ data_section_to_offset' = r.data_section_to_offset
             /\ pc' = "populate_all_functions"
             /\ UNCHANGED <<pending, cur, objects, all_functions, offset_table, code_image,
                            config, overflow_checks, image, err>>

populate_all_functions ==
  /\ pc = "populate_all_functions"
  /\ UNCHANGED dev
  /\ LET r == populate_all_functions_result(objects, all_functions)
     IN IF ~r.ok THEN Fail(<<r.err, r.function, r.first, r.second>>)
        ELSE /\ all_functions' = r.value
             /\ pc' = "resolve_pseudo_calls"
             /\ UNCHANGED <<pending, cur, objects, offset_table, code_image, data_image,
                            data_section_to_offset, config, overflow_checks, image, err>>

resolve_pseudo_calls ==
  /\ pc = "resolve_pseudo_calls"
  /\ UNCHANGED dev
  /\ LET r == resolve_pseudo_calls_result(objects, all_functions, config, overflow_checks)
     IN IF ~r.ok THEN Fail(<<r.err>>)
        ELSE /\ objects' = r.value
             /\ pc' = "resolve_generic_relocs"
             /\ UNCHANGED <<pending, cur, all_functions, offset_table, code_image, data_image,
                            data_section_to_offset, config, overflow_checks, image, err>>

resolve_generic_relocs ==
  /\ pc = "resolve_generic_relocs"
  /\ UNCHANGED dev
  /\ LET r == resolve_generic_relocs_result(objects, data_section_to_offset, overflow_checks)
     IN IF ~r.ok THEN Fail(<<r.err>>)
        ELSE /\ objects' = r.value
             /\ pc' = IF config.dce_roots # None THEN "global_dce" ELSE "emit_entry_trampoline"
             /\ UNCHANGED <<pending, cur, all_functions, offset_table, code_image, data_image,
                            data_section_to_offset, config, overflow_checks, image, err>>

global_dce ==
  /\ pc = "global_dce"
  /\ UNCHANGED dev
  /\ LET r == global_dce_result(objects, all_functions, config.dce_roots[1])
     IN IF ~r.ok THEN Fail(<<r.err>>)
        ELSE /\ all_functions' = r.value
             /\ pc' = "emit_entry_trampoline"
             /\ UNCHANGED <<pending, cur, objects, offset_table, code_image, data_image,
                            data_section_to_offset, config, overflow_checks, image, err>>

emit_entry_trampoline ==
  /\ pc = "emit_entry_trampoline"
  /\ UNCHANGED dev
  /\ code_image' = emit_entry_trampoline_result(code_image)
  /\ pc' = "emit_code_image"
  /\ UNCHANGED <<pending, cur, objects, all_functions, offset_table, data_image,
                 data_section_to_offset, config, overflow_checks, image, err>>

emit_code_image ==
  /\ pc = "emit_code_image"
  /\ UNCHANGED dev
  /\ LET r == emit_code_image_result(objects, all_functions, code_image)
     IN /\ objects' = r.objects
        /\ code_image' = r.code_image
  /\ pc' = "rewrite_image_call_return"
  /\ UNCHANGED <<pending, cur, all_functions, offset_table, data_image,
                 data_section_to_offset, config, overflow_checks, image, err>>

rewrite_image_call_return ==
  /\ pc = "rewrite_image_call_return"
  /\ UNCHANGED dev
  /\ LET r == rewrite_image_call_return_result(objects, all_functions, code_image)
     IN IF ~r.ok THEN Fail(<<r.err>>)
        ELSE /\ code_image' = r.value
             /\ pc' = "emit_offset_table"
             /\ UNCHANGED <<pending, cur, objects, all_functions, offset_table, data_image,
                            data_section_to_offset, config, overflow_checks, image, err>>

\* the last phase, and emit's move of the images and the table into the Image
emit_offset_table ==
  /\ pc = "emit_offset_table"
  /\ UNCHANGED dev
  /\ image' = Some([code |-> code_image,
                    data |-> data_image,
                    machine |-> config.target_machine,
                    platform |-> config.host_platform,
                    func_offsets |-> emit_offset_table_result(objects, all_functions,
                                                               offset_table)])
  /\ code_image' = <<>>
  /\ data_image' = <<>>
  /\ offset_table' = <<>>
  /\ pc' = "done"
  /\ UNCHANGED <<pending, cur, objects, all_functions, data_section_to_offset, config,
                 overflow_checks, err>>

Next ==
  \/ populate_functions
  \/ populate_reloc
  \/ calculate_stack_usage
  \/ patch_callee_saved_regs
  \/ emit_data
  \/ populate_all_functions
  \/ resolve_pseudo_calls
  \/ resolve_generic_relocs
  \/ global_dce
  \/ emit_entry_trampoline
  \/ emit_code_image
  \/ rewrite_image_call_return
  \/ emit_offset_table

(***************************************************************************)
(* Object files and configurations given to link_files.                    *)
(***************************************************************************)
NullSection == [sh_type |-> 0, sh_flags |-> 0, sh_info |-> 0, data |-> <<>>]

TextSection(insns) ==
  [sh_type |-> SHT_PROGBITS, sh_flags |-> SHF_ALLOC + SHF_EXECINSTR, sh_info |-> 0,
   data |-> Encode(insns)]

DataSection(bytes) ==
  [sh_type |-> SHT_PROGBITS, sh_flags |-> SHF_ALLOC, sh_info |-> 0, data |-> bytes]

\* a SHT_REL section (type 9) whose sh_info names the section it applies to
RelSection(target) == [sh_type |-> 9, sh_flags |-> 0, sh_info |-> target, data |-> <<>>]

Sym(name, type, bind, shndx, value) ==
  [st_name |-> name, st_type |-> type, st_bind |-> bind, st_shndx |-> shndx,
   st_value |-> value]

NullSym == Sym("", 0, STB_LOCAL, SHN_UNDEF, 0)

Func(name, bind, shndx, value) == Sym(name, STT_FUNC, bind, shndx, value)

Reloc(offset, sym, type) == [r_offset |-> offset, r_sym |-> sym, r_type |-> type]

Elf(sections, syms, relocs) ==
  [e_machine |-> EM_BPF, section_headers |-> sections, syms |-> syms, shdr_relocs |-> relocs]

ObjectFile(name, elf) == [name |-> name, elf |-> elf]

NoHelpers == [n \in {} |-> 0]

Config(data_offset, host_helpers, machine_helpers, dce_roots) ==
  [target_machine |-> [helpers |-> machine_helpers],
   host_platform |-> [data_offset |-> data_offset, helpers |-> host_helpers],
   dce_roots |-> dce_roots]

\* GlobalLinker::new, then link_files about to call add_object
\* the tasks that hold a clone of the Device: one calls run, the other single operations
Tasks == {"run", "other"}

\* a task outside every Device method
Idle ==
  [pc |-> "idle", request |-> None, polls |-> 0, calls |-> 0, perf |-> None, result |-> None]

\* Device::open: the mutex around the descriptor is unlocked, nothing was requested yet
OpenDevice ==
  [file |-> None, task |-> [t \in Tasks |-> Idle], state |-> None, log |-> <<>>]

InitWith(in) ==
  /\ dev = OpenDevice
  /\ pending = in.objects
  /\ config = in.config
  /\ overflow_checks = in.overflow_checks
  /\ cur = None
  /\ objects = <<>>
  /\ all_functions = <<>>
  /\ offset_table = <<>>
  /\ code_image = <<>>
  /\ data_image = <<>>
  /\ data_section_to_offset = {}
  /\ image = None
  /\ err = <<>>
  /\ pc = "add_object"

Input(objs, cfg, oc) == [objects |-> objs, config |-> cfg, overflow_checks |-> oc]

\* sequences over S of length at most n
RECURSIVE SeqsUpTo(_, _)
SeqsUpTo(S, n) ==
  IF n = 0 THEN {<<>>}
  ELSE LET shorter == SeqsUpTo(S, n - 1)
       IN shorter \cup {Append(q, x) : q \in {r \in shorter : Len(r) = n - 1}, x \in S}

(***************************************************************************)
(* Inputs of the local linker: one object whose .text is any sequence of   *)
(* at most MaxBody instructions of LocalInsns, with a global function f at *)
(* offset 0 and a static function g at offset 8.                           *)
(***************************************************************************)
LocalInsns ==
  { Insn(MOV64_IMM, 0, 0, 0, 42),
    Insn(MOV64_IMM, 6, 0, 0, 1),
    Insn(MOV64_REG, 8, 1, 0, 0),
    Insn(ST_DW_REG, 10, 1, -16, 0),
    Insn(ST_DW_REG, 9, 7, 8, 0),
    Insn(ST_DW_REG, 10, 2, -32768, 0),
    Insn(ADD64_REG, 1, 10, 0, 0),
    Insn(CALL, 0, 1, 0, 0),
    Insn(EXIT, 0, 0, 0, 0) }

LocalElf(body) ==
  Elf(<<NullSection, TextSection(body)>>,
      <<NullSym, Func("f", STB_GLOBAL, 1, 0), Func("g", STB_LOCAL, 1, 8)>>,
      <<>>)

\* a release build without DCE roots, a debug build with the root f
LocalInputs ==
  { Input(<<ObjectFile("gen.o", LocalElf(body))>>, Config(0, NoHelpers, NoHelpers, roots), oc) :
      body \in SeqsUpTo(LocalInsns, MaxBody),
      <<roots, oc>> \in {<<None, FALSE>>, <<Some(<<"f">>), TRUE>>} }

InitLocal == \E in \in LocalInputs : InitWith(in)

SpecLocal == InitLocal /\ [][Next]_vars

(***************************************************************************)
(* Inputs of calculate_stack_usage: the object of LocalElf with bodies of  *)
(* the instructions the scan tells apart: stores through r10 of the class  *)
(* STX and ST, below and above the frame and at the least i16 offset, a    *)
(* store through r9, a load through r10, r10 as the source of an ALU       *)
(* instruction, and EXIT.  Both build profiles.                            *)
(***************************************************************************)
StackInsns ==
  { Insn(ST_DW_REG, 10, 1, -16, 0),
    Insn(120 + BPF_ST, 10, 0, -1024, 7),
    Insn(ST_DW_REG, 10, 2, -32768, 0),
    Insn(ST_DW_REG, 10, 1, 8, 0),
    Insn(ST_DW_REG, 9, 10, -2048, 0),
    Insn(LD_DW_REG, 1, 10, -8, 0),
    Insn(ADD64_REG, 1, 10, 0, 0),
    Insn(EXIT, 0, 0, 0, 0) }

StackInputs ==
  { Input(<<ObjectFile("gen.o", LocalElf(body))>>, Config(0, NoHelpers, NoHelpers, roots), oc) :
      body \in SeqsUpTo(StackInsns, MaxBody),
      <<roots, oc>> \in {<<None, TRUE>>, <<Some(<<"f">>), FALSE>>} }

InitStack == \E in \in StackInputs : InitWith(in)

SpecStack == InitStack /\ [][Next]_vars

(***************************************************************************)
(* Inputs of the data relocations: one object r.o with                     *)
(*   .text (1)   f: LD_DW_IMM r1, lo | hi ; MOV64_IMM rX, v ; EXIT         *)
(*   .data (2)   8 bytes, .rodata (3) 8 bytes, .rel.text (4)               *)
(* and one relocation of .text against one of the symbols                  *)
(*   2 d  (local, .rodata + 4)   3 gd (global, .data + 0)                  *)
(*   4 t  (local, .text + 0).                                              *)
(***************************************************************************)
MinI32 == -2147483647 - 1

RelocBody(lo, hi, rx, v) ==
  <<Insn(LD_DW_IMM, 1, 0, 0, lo), Insn(0, 0, 0, 0, hi), Insn(MOV64_IMM, rx, 0, 0, v),
    Insn(EXIT, 0, 0, 0, 0)>>

RelocElf(body, reloc) ==
  Elf(<<NullSection, TextSection(body), DataSection(<<1, 2, 3, 4, 5, 6, 7, 8>>),
        DataSection(<<9, 10, 11, 12, 13, 14, 15, 16>>), RelSection(1)>>,
      <<NullSym, Func("f", STB_GLOBAL, 1, 0), Sym("d", 1, STB_LOCAL, 3, 4),
        Sym("gd", 1, STB_GLOBAL, 2, 0), Sym("t", 0, STB_LOCAL, 1, 0)>>,
      <<[section |-> 4, relocs |-> <<reloc>>]>>)

\* R_BPF_64_32 on the MOV or on a half of the LD_DW_IMM, in a function with
\* (rx = 6) or without (rx = 0) a callee-saved prologue, and the relocations
\* resolve_generic_relocs refuses
NarrowInputs ==
  { Input(<<ObjectFile("r.o", RelocElf(RelocBody(lo, 0, rx, v), Reloc(at, sym, type)))>>,
          Config(16, NoHelpers, NoHelpers, roots), oc) :
      lo \in {0, -1}, rx \in {0, 6}, v \in {5, -7, 2147483647},
      <<at, sym, type>> \in {<<16, 2, R_BPF_64_32>>, <<0, 2, R_BPF_64_32>>,
                             <<16, 3, R_BPF_64_32>>, <<16, 4, R_BPF_64_32>>,
                             <<16, 2, 2>>, <<24, 2, R_BPF_64_64>>},
      <<roots, oc>> \in {<<None, FALSE>>, <<None, TRUE>>, <<Some(<<"f">>), FALSE>>,
                         <<Some(<<"nowhere">>), FALSE>>} }

\* R_BPF_64_64 on the LD_DW_IMM pair of a function without a prologue, for the
\* halves lo and hi
WideInputs ==
  { Input(<<ObjectFile("r.o", RelocElf(RelocBody(lo, hi, 0, 5), Reloc(0, 2, R_BPF_64_64)))>>,
          Config(16, NoHelpers, NoHelpers, roots), oc) :
      lo \in {0, 1, 2147483647, MinI32, -1, -28},
      hi \in {0, 1, 2147483647, MinI32, -1},
      <<roots, oc>> \in {<<None, FALSE>>, <<None, TRUE>>, <<Some(<<"f">>), FALSE>>} }

InitReloc == \E in \in NarrowInputs \cup WideInputs : InitWith(in)

SpecReloc == InitReloc /\ [][Next]_vars

InitWide == \E in \in WideInputs : InitWith(in)

SpecWide == InitWide /\ [][Next]_vars

(***************************************************************************)
(* Inputs of whole links: at most MaxObjects object files, in any order    *)
(* and with repetition, out of                                             *)
(*   a.o  global entry: MOV64_IMM r0, 42; EXIT                       (E2)  *)
(*   m.o  global main (calls used by relocation), used, unused_a,          *)
(*        unused_b (calls unused_a by offset)                        (E5)  *)
(*   x.o  static h (writes r6), global xmain (calls h by offset)           *)
(*   y.o  static h, global ymain (calls h by relocation)                   *)
(*   g.o  global h, global main                                            *)
(*   p.o  global pmain: calls the import printk, then the import h         *)
(***************************************************************************)
Mov(dst, imm) == Insn(MOV64_IMM, dst, 0, 0, imm)

PseudoCall(imm) == Insn(CALL, 0, 1, 0, imm)

Exit == Insn(EXIT, 0, 0, 0, 0)

ObjA ==
  ObjectFile("a.o",
    Elf(<<NullSection, TextSection(<<Mov(0, 42), Exit>>)>>,
        <<NullSym, Func("entry", STB_GLOBAL, 1, 0)>>,
        <<>>))

ObjM ==
  ObjectFile("m.o",
    Elf(<<NullSection,
          TextSection(<<PseudoCall(-1), Exit, Mov(0, 1), Exit, Mov(0, 2), Exit,
                        PseudoCall(-3), Exit>>),
          RelSection(1)>>,
        <<NullSym, Func("main", STB_GLOBAL, 1, 0), Func("used", STB_GLOBAL, 1, 16),
          Func("unused_a", STB_GLOBAL, 1, 32), Func("unused_b", STB_GLOBAL, 1, 48)>>,
        <<[section |-> 2, relocs |-> <<Reloc(0, 2, R_BPF_64_32)>>]>>))

ObjX ==
  ObjectFile("x.o",
    Elf(<<NullSection, TextSection(<<Mov(6, 1), Exit, PseudoCall(-3), Exit>>)>>,
        <<NullSym, Func("h", STB_LOCAL, 1, 0), Func("xmain", STB_GLOBAL, 1, 16)>>,
        <<>>))

ObjY ==
  ObjectFile("y.o",
    Elf(<<NullSection, TextSection(<<Mov(0, 2), Exit, PseudoCall(-1), Exit>>), RelSection(1)>>,
        <<NullSym, Func("h", STB_LOCAL, 1, 0), Func("ymain", STB_GLOBAL, 1, 16)>>,
        <<[section |-> 2, relocs |-> <<Reloc(16, 1, R_BPF_64_32)>>]>>))

ObjG ==
  ObjectFile("g.o",
    Elf(<<NullSection, TextSection(<<Mov(0, 3), Exit, Mov(0, 4), Exit>>)>>,
        <<NullSym, Func("h", STB_GLOBAL, 1, 0), Func("main", STB_GLOBAL, 1, 16)>>,
        <<>>))

ObjP ==
  ObjectFile("p.o",
    Elf(<<NullSection, TextSection(<<PseudoCall(-1), PseudoCall(-1), Exit>>), RelSection(1)>>,
        <<NullSym, Func("pmain", STB_GLOBAL, 1, 0), Sym("printk", 0, STB_GLOBAL, SHN_UNDEF, 0),
          Sym("h", 0, STB_GLOBAL, SHN_UNDEF, 0)>>,
        <<[section |-> 2,
           relocs |-> <<Reloc(0, 2, R_BPF_64_32), Reloc(8, 3, R_BPF_64_32)>>]>>))

Catalog == {ObjA, ObjM, ObjX, ObjY, ObjG, ObjP}

HostHelpers == [n \in {"printk"} |-> 7]

MachineHelpers == [n \in {"printk", "memcpy"} |-> IF n = "printk" THEN 3 ELSE 4]

RootChoices ==
  { None, Some(<<"main">>), Some(<<"entry">>), Some(<<"xmain", "ymain", "pmain">>),
    Some(<<"nowhere", "used", "x.o:h">>) }

LinkInputs ==
  { Input(objs, Config(0, HostHelpers, MachineHelpers, roots), FALSE) :
      objs \in SeqsUpTo(Catalog, MaxObjects), roots \in RootChoices }

Init == \E in \in LinkInputs : InitWith(in)

Spec == Init /\ [][Next]_vars

(***************************************************************************)
(* Inputs of the pseudo-call resolution.  c.o holds                        *)
(*   .text (1)   caller (global, 0): CALL src=1; EXIT                      *)
(*               near (static, 16):  MOV64_IMM r0, 1; EXIT                 *)
(* and one relocation at the CALL against symbol 3, which is an undefined  *)
(* symbol of some name or a defined symbol that is no function.  d.o       *)
(* defines the global ext and the static stat, k.o a global function named *)
(* like the helper printk.                                                 *)
(***************************************************************************)
CallerObj(sym) ==
  ObjectFile("c.o",
    Elf(<<NullSection, TextSection(<<PseudoCall(-1), Exit, Mov(0, 1), Exit>>), RelSection(1)>>,
        <<NullSym, Func("caller", STB_GLOBAL, 1, 0), Func("near", STB_LOCAL, 1, 16), sym>>,
        <<[section |-> 2, relocs |-> <<Reloc(0, 3, R_BPF_64_32)>>]>>))

ObjD ==
  ObjectFile("d.o",
    Elf(<<NullSection, TextSection(<<Mov(0, 2), Exit, Mov(0, 3), Exit>>)>>,
        <<NullSym, Func("ext", STB_GLOBAL, 1, 0), Func("stat", STB_LOCAL, 1, 16)>>,
        <<>>))

ObjK ==
  ObjectFile("k.o",
    Elf(<<NullSection, TextSection(<<Mov(0, 4), Exit>>)>>,
        <<NullSym, Func("printk", STB_GLOBAL, 1, 0)>>,
        <<>>))

\* symbols undefined in c.o
UndefinedSyms ==
  { Sym(n, 0, b, SHN_UNDEF, 0) :
      n \in {"printk", "memcpy", "nohelp", "ext", "stat", "near"}, b \in {STB_GLOBAL, STB_WEAK} }

\* symbols defined in .text of c.o that are no functions
DefinedSyms ==
  { Sym(n, 0, b, 1, v) : n \in {"printk", "nohelp"}, b \in {STB_LOCAL, STB_GLOBAL}, v \in {0, 16} }

\* r.o: t0 (static, 0): MOV64_IMM ry, 1; EXIT and t1 (global, 16): MOV64_IMM rx, 1;
\* CALL src=1 imm; EXIT, the call without a relocation.  rx, ry in 6..9 give the
\* caller, the callee a callee-saved prologue.
RelCallObj(rx, ry, imm) ==
  ObjectFile("r.o",
    Elf(<<NullSection, TextSection(<<Mov(ry, 1), Exit, Mov(rx, 1), PseudoCall(imm), Exit>>)>>,
        <<NullSym, Func("t0", STB_LOCAL, 1, 0), Func("t1", STB_GLOBAL, 1, 16)>>,
        <<>>))

RelCallInputs ==
  { Input(objs, Config(0, NoHelpers, NoHelpers, roots), oc) :
      objs \in UNION { { <<RelCallObj(rx, ry, imm)>>, <<ObjD, RelCallObj(rx, ry, imm)>> } :
                       rx \in {0, 6}, ry \in {0, 7}, imm \in -5 .. 0 },
      roots \in {None, Some(<<"t1">>)},
      oc \in BOOLEAN }

HelperChoices ==
  { <<HostHelpers, MachineHelpers>>, <<NoHelpers, MachineHelpers>>, <<NoHelpers, NoHelpers>> }

CallInputs ==
  { Input(objs, Config(0, h[1], h[2], roots), FALSE) :
      objs \in UNION { { <<CallerObj(sym)>>, <<CallerObj(sym), ObjD>>, <<ObjD, CallerObj(sym)>>,
                         <<CallerObj(sym), ObjK>> } : sym \in UndefinedSyms \cup DefinedSyms },
      h \in HelperChoices,
      roots \in {None, Some(<<"caller", "near", "c.o:near">>)} }

InitCalls == \E in \in CallInputs \cup RelCallInputs : InitWith(in)

SpecCalls == InitCalls /\ [][Next]_vars

(***************************************************************************)
(* Inputs of the call frames: one object fr.o with                         *)
(*   .text (1)   leaf (static, 0):  <first> ; MOV64_IMM rY, 1 ; EXIT       *)
(*               top (global, 24):  <first> ; MOV64_IMM rX, 1 ;            *)
(*                                  CALL src=1 imm=-6 (leaf) ; EXIT        *)
(* where <first> is a store through r10 or makes r10 escape, and rX, rY    *)
(* are or are not callee-saved.  Both build profiles.                      *)
(***************************************************************************)
FrameInsns ==
  { Insn(ST_DW_REG, 10, 1, -16, 0),
    Insn(ST_DW_REG, 10, 1, -1024, 0),
    Insn(ST_DW_REG, 10, 1, -32768, 0),
    Insn(ST_DW_REG, 10, 1, 8, 0),
    Insn(ADD64_REG, 1, 10, 0, 0) }

FrameObj(leaf_first, ry, top_first, rx) ==
  ObjectFile("fr.o",
    Elf(<<NullSection,
          TextSection(<<leaf_first, Mov(ry, 1), Exit, top_first, Mov(rx, 1), PseudoCall(-6), Exit>>)>>,
        <<NullSym, Func("leaf", STB_LOCAL, 1, 0), Func("top", STB_GLOBAL, 1, 24)>>,
        <<>>))

FrameInputs ==
  { Input(<<FrameObj(lf, ry, tf, rx)>>, Config(0, NoHelpers, NoHelpers, roots), oc) :
      lf \in FrameInsns, tf \in FrameInsns, rx \in {0, 6}, ry \in {0, 7},
      roots \in {None, Some(<<"top">>)}, oc \in BOOLEAN }

InitFrame == \E in \in FrameInputs : InitWith(in)

SpecFrame == InitFrame /\ [][Next]_vars

(***************************************************************************)
(* Inputs of emit_data: the object a.o with .text (global fa) followed by  *)
(* at most MaxSections sections out of: .data (8 bytes), .rodata (4        *)
(* bytes), a second executable section, a PROGBITS section without         *)
(* SHF_ALLOC (.comment) and a NOBITS section (.bss); alone, in front of or *)
(* behind b.o, which has .text (global fb) and a .data of 4 bytes.  The    *)
(* data_offset of the host platform is 0, 16 or 0xFFFFFFFC (signed         *)
(* reading -4).                                                            *)
(***************************************************************************)
DataSections ==
  { DataSection(<<1, 2, 3, 4, 5, 6, 7, 8>>),
    [sh_type |-> SHT_PROGBITS, sh_flags |-> SHF_ALLOC + 1, sh_info |-> 0, data |-> <<21, 22, 23, 24>>],
    TextSection(<<Exit>>),
    [sh_type |-> SHT_PROGBITS, sh_flags |-> 48, sh_info |-> 0, data |-> <<71, 67, 67, 0>>],
    [sh_type |-> 8, sh_flags |-> SHF_ALLOC + 1, sh_info |-> 0, data |-> <<>>] }

DataObj(name, fname, sections) ==
  ObjectFile(name,
    Elf(<<NullSection, TextSection(<<Mov(0, 1), Exit>>)>> \o sections,
        <<NullSym, Func(fname, STB_GLOBAL, 1, 0)>>,
        <<>>))

DataInputs ==
  { Input(objs, Config(d, NoHelpers, NoHelpers, roots), oc) :
      objs \in UNION { { <<DataObj("a.o", "fa", ss)>>,
                         <<DataObj("a.o", "fa", ss), DataObj("b.o", "fb", <<DataSection(<<9, 9, 9, 9>>)>>)>>,
                         <<DataObj("b.o", "fb", <<DataSection(<<9, 9, 9, 9>>)>>), DataObj("a.o", "fa", ss)>> } :
                       ss \in SeqsUpTo(DataSections, MaxSections) },
      d \in {0, 16, -4},
      <<roots, oc>> \in {<<None, FALSE>>, <<None, TRUE>>, <<Some(<<"fa">>), FALSE>>} }

InitData == \E in \in DataInputs : InitWith(in)

SpecData == InitData /\ [][Next]_vars

(***************************************************************************)
(* Inputs of populate_reloc: one object t.o with                           *)
(*   .text (1)   f (global, 0):  MOV64_IMM r1, 1 ; <second>                *)
(*               g (static, 16): MOV64_IMM r2, 2 ; MOV64_IMM r3, 3 ; EXIT  *)
(*   .data (2)   8 bytes, with the local symbol d at .data + 4             *)
(*   .rel  (3)   R_BPF_64_32 relocations against d, for section sh_info    *)
(* <second> is EXIT (f ends in front of g) or a MOV64_IMM (f runs on       *)
(* through g to the EXIT of g).                                            *)
(***************************************************************************)
AttrObj(second, target, offsets) ==
  ObjectFile("t.o",
    Elf(<<NullSection, TextSection(<<Mov(1, 1), second, Mov(2, 2), Mov(3, 3), Exit>>),
          DataSection(<<1, 2, 3, 4, 5, 6, 7, 8>>), RelSection(target)>>,
        <<NullSym, Func("f", STB_GLOBAL, 1, 0), Func("g", STB_LOCAL, 1, 16),
          Sym("d", 1, STB_LOCAL, 2, 4)>>,
        <<[section |-> 3,
           relocs |-> [j \in 1 .. Len(offsets) |-> Reloc(offsets[j], 3, R_BPF_64_32)]]>>))

AttrInputs ==
  { Input(<<AttrObj(second, target, offsets)>>, Config(16, NoHelpers, NoHelpers, roots), oc) :
      second \in {Exit, Mov(4, 4)},
      target \in {1, 2},
      offsets \in {<<0>>, <<8>>, <<16>>, <<24>>, <<32>>, <<40>>, <<48>>, <<8, 24>>, <<>>},
      <<roots, oc>> \in {<<None, FALSE>>, <<None, TRUE>>, <<Some(<<"f">>), FALSE>>} }

InitAttr == \E in \in AttrInputs : InitWith(in)

SpecAttr == InitAttr /\ [][Next]_vars

(***************************************************************************)
(* The rewrite of one call, for call sites and callees further apart than  *)
(* the code of the links above reaches: this_offset and target_offset are  *)
(* image offsets of instructions, 104 + 8k, with k up to 2^16 + 1, so that *)
(* the displacement passes both ends of i16 and wraps past them.           *)
(***************************************************************************)
CallOffsets == {104 + 8 * k : k \in {0, 1, 32767, 32768, 32769, 32770, 65536, 65537}}

CallSites == [this_offset : CallOffsets, target_offset : CallOffsets, stack_usage : {0, 16}]

InitCall ==
  \/ Init
  \/ \E c \in CallSites :
       /\ cur = Some(c)
       /\ pc = "rewrite_call"
       /\ dev = OpenDevice
       /\ pending = <<>>
       /\ config = Config(0, NoHelpers, NoHelpers, None)
       /\ overflow_checks = FALSE
       /\ objects = <<>>
       /\ all_functions = <<>>
       /\ offset_table = <<>>
       /\ code_image = <<>>
       /\ data_image = <<>>
       /\ data_section_to_offset = {}
       /\ image = None
       /\ err = <<>>

\* the body of the loop of rewrite_image_call_return for one call instruction
rewrite_one_call ==
  /\ pc = "rewrite_call"
  /\ UNCHANGED dev
  /\ LET r == rewrite_call(cur[1], cur[1].this_offset, cur[1].target_offset)
     IN IF ~r.ok THEN Fail(<<r.err>>)
        ELSE /\ code_image' = r.value
             /\ pc' = "call_rewritten"
             /\ UNCHANGED <<pending, cur, objects, all_functions, offset_table, data_image,
                            data_section_to_offset, config, overflow_checks, image, err>>

NextCall == Next \/ rewrite_one_call

SpecCall == InitCall /\ [][NextCall]_vars

(***************************************************************************)
(* What the claims speak of: the source instructions of a function, read   *)
(* from the object file, and the functions the linker holds.               *)
(***************************************************************************)
\* the symbol a function of the object was made from (the last of that name)
SymOfFunction(elf, func) ==
  LET cand == {i \in Indices(elf.syms) :
                 is_function(At(elf.syms, i)) /\ At(elf.syms, i).st_name = func.name}
  IN At(elf.syms, CHOOSE i \in cand : \A j \in cand : j <= i)

\* the source of a function: the bytes of its section and where it starts
Source(elf, func) ==
  LET sym == SymOfFunction(elf, func)
  IN [data |-> At(elf.section_headers, sym.st_shndx).data, start |-> sym.st_value]

\* is there a whole instruction k of the function in the section, and is it no EXIT
SourceRuns(src, k) ==
  /\ src.start + 8 * k + 8 <= Len(src.data)
  /\ src.data[src.start + 8 * k + 1] # EXIT

\* the number of instructions before the first EXIT (or the end of the section)
SourceCount(src) ==
  CHOOSE n \in 0 .. (Len(src.data) \div 8) :
    /\ \A k \in 0 .. (n - 1) : SourceRuns(src, k)
    /\ ~SourceRuns(src, n)

SourceInsn(src, k) ==
  get_insn(SubSeq(src.data, src.start + 8 * k + 1, src.start + 8 * k + 8), 0)

\* the registers 6..9 that are dst of one of the first count source instructions
SavedRegs(src, count) ==
  {r \in 6 .. 9 : \E k \in 0 .. (count - 1) : src.data[src.start + 8 * k + 2] % 16 = r}

\* the objects whose functions have passed patch_callee_saved_regs / have not yet
Patched == objects

Unpatched == IF pc \in {"populate_reloc", "calculate_stack_usage", "patch_callee_saved_regs"}
             THEN cur ELSE <<>>

ExitIsLastOnly(code) ==
  /\ Len(code) > 0
  /\ {i \in 1 .. Len(code) : code[i].insn.opc = EXIT} = {Len(code)}

\* the code image while the linker holds it, then the one in the returned Image
FinalCode == IF image # None THEN image[1].code ELSE code_image

Rewritten == pc \in {"emit_offset_table", "done"}

Surviving == {FuncOf(objects, all_functions[k]) : k \in 1 .. Len(all_functions)}

ImageInsn(code, offset) == get_insn(SubSeq(code, offset + 1, offset + 8), 0)

(***************************************************************************)
(* The claims.                                                             *)
(***************************************************************************)
\* the instruction of func that came from byte offset off of its source
CodeAt(func, off) ==
  func.code[CHOOSE i \in 1 .. Len(func.code) : func.code[i].original_offset = off]

\* data_base(section of the symbol) + st_value(symbol) of a relocation entry
RelocAddend(o, ent) ==
  LET sym == At(objects[o].elf.syms, ent.reloc.r_sym)
  IN DataBase(data_section_to_offset, o - 1, sym.st_shndx)[1] + sym.st_value

\* the relocation entries of type t the objects hold, as <<object, entry>>
RelocsOfType(t) ==
  {<<o, objects[o].reloc[r]>> :
     <<o, r>> \in {x \in (1 .. Len(objects)) \X (1 .. 4) :
                    /\ x[2] <= Len(objects[x[1]].reloc)
                    /\ objects[x[1]].reloc[x[2]].reloc.r_type = t}}

\* C1: after a successful link, for every R_BPF_64_32 data relocation attributed
\* to a function at byte offset o, the instruction whose original_offset is o
\* has imm = pre-link imm + data_base(section) + st_value (on 32 bits), and no
\* other instruction of the function has its imm changed; also for a function
\* that received a callee-saved prologue.
C1_NarrowRelocLaw ==
  pc = "done" =>
    \A x \in RelocsOfType(R_BPF_64_32) :
      LET ent == x[2]
          func == At(objects[x[1]].functions, ent.func_index)
          src == Source(objects[x[1]].elf, func)
          count == SourceCount(src)
          n == Cardinality(SavedRegs(src, count))
      IN \A i \in 1 .. Len(func.code) :
           LET a == func.code[i] IN
             IF a.original_offset = ent.offset
             THEN a.insn.imm = WrappingAdd32(SourceInsn(src, ent.offset \div 8).imm,
                                             RelocAddend(x[1], ent))
             ELSE IF a.original_offset >= 0 /\ a.original_offset < 8 * count
                  THEN a.insn.imm = SourceInsn(src, a.original_offset \div 8).imm
                  ELSE a.insn.imm \in {0, 8 * n}

\* the sum of a 64-bit value, given as four 16-bit limbs, and t, modulo 2^64
PlusModU64(v, t) ==
  LET a == v[1] + (t % 65536)
      b == v[2] + ((t \div 65536) % 65536) + (a \div 65536)
      c == v[3] + (b \div 65536)
      d == v[4] + (c \div 65536)
  IN <<a % 65536, b % 65536, c % 65536, d % 65536>>

\* (imm_hi << 32) | (imm_lo as unsigned 32 bits), as four 16-bit limbs
Wide(imm_lo, imm_hi) == <<Lo16(imm_lo), Hi16(imm_lo), Lo16(imm_hi), Hi16(imm_hi)>>

\* C2: for every R_BPF_64_64 relocation on an LD_DW_IMM pair, for every pair of
\* 32-bit halves (imm_lo with bit 31 set included), the post-link 64-bit value
\* (imm_hi << 32) | unsigned imm_lo is the pre-link value formed the same way
\* plus data_base(section) + st_value(symbol), modulo 2^64.
C2_WideRelocLaw ==
  pc = "done" =>
    \A x \in RelocsOfType(R_BPF_64_64) :
      LET ent == x[2]
          func == At(objects[x[1]].functions, ent.func_index)
          src == Source(objects[x[1]].elf, func)
      IN Wide(CodeAt(func, ent.offset).insn.imm, CodeAt(func, ent.offset + 8).insn.imm)
           = PlusModU64(Wide(SourceInsn(src, ent.offset \div 8).imm,
                             SourceInsn(src, ent.offset \div 8 + 1).imm),
                        RelocAddend(x[1], ent))

Keys(af) == {af[k].key : k \in 1 .. Len(af)}

Roots == {config.dce_roots[1][r] : r \in 1 .. Len(config.dce_roots[1])}

C3_DceKeepsRoots ==
  [][pc = "global_dce" =>
       /\ pc' = "emit_entry_trampoline"
       /\ \A r \in Roots : r \in Keys(all_functions) => r \in Keys(all_functions')]_vars

C3_RootsInOffsetTable ==
  (pc = "done" /\ config.dce_roots # None) =>
     \A k \in 1 .. Len(all_functions) :
       all_functions[k].key \in Roots =>
         /\ FuncOf(objects, all_functions[k]).name \in DOMAIN image[1].func_offsets
         /\ image[1].func_offsets[FuncOf(objects, all_functions[k]).name] >= 104

\* C3: every configured DCE root that names a function of the merged table
\* survives global_dce and appears in func_offsets, also a root that makes no
\* call and is called by nobody (E2: the single leaf function entry with
\* dce_roots = [entry] links, func_offsets = {entry: 104}).
C3_RootsSurvive == C3_DceKeepsRoots /\ []C3_RootsInOffsetTable

\* the functions of all objects, as <<object_index, func_index>>
FuncIds ==
  {id \in Indices(objects) \X (0 .. 3) : id[2] < Len(At(objects, id[1]).functions)}

Calls(id) == CallTargets(At(At(objects, id[1]).functions, id[2]))

\* the functions a path of call_target edges leads to from those of ids
RECURSIVE CallClosure(_)
CallClosure(ids) ==
  LET next == ids \cup UNION {Calls(id) : id \in ids}
  IN IF next = ids THEN ids ELSE CallClosure(next)

IdsOf(af) == {<<af[k].obj_index, af[k].func_index>> : k \in 1 .. Len(af)}

C4_DceDropsUnreachable ==
  [][(pc = "global_dce" /\ pc' # "failed") =>
       IdsOf(all_functions') \subseteq
         CallClosure({<<all_functions[k].obj_index, all_functions[k].func_index>> :
                        k \in {j \in 1 .. Len(all_functions) : all_functions[j].key \in Roots}})]_vars

C4_OffsetsOfSurvivors ==
  pc = "done" => DOMAIN image[1].func_offsets \subseteq {func.name : func \in Surviving}

\* C4: with dce_roots configured, every function left in the merged table by
\* global_dce (hence every name of func_offsets) is reachable through
\* call_target edges from a configured root present in the table (E5: only
\* main and used are left of main, used, unused_a, unused_b).
C4_OnlyReachableSurvive == C4_DceDropsUnreachable /\ []C4_OffsetsOfSurvivors

\* E5 linked: m.o alone with the root main, main and used in the offset table
C4_Witness ==
  /\ pc = "done"
  /\ Len(objects) = 1 /\ objects[1].name = "m.o"
  /\ config.dce_roots = Some(<<"main">>)
  /\ DOMAIN image[1].func_offsets = {"main", "used"}

\* C5: after global_dce the surviving functions are closed under calls: the
\* call_target of every instruction of a surviving function is a surviving
\* function, so rewrite_image_call_return finds the offset of every target.
C5_SurvivorsClosed ==
  pc \in {"emit_entry_trampoline", "emit_code_image", "rewrite_image_call_return",
          "emit_offset_table", "done"} =>
    \A k \in 1 .. Len(all_functions) :
      Calls(<<all_functions[k].obj_index, all_functions[k].func_index>>)
        \subseteq IdsOf(all_functions)

\* global_dce has dropped a function and has kept one that calls another
C5_Witness ==
  /\ pc = "emit_entry_trampoline"
  /\ config.dce_roots # None
  /\ Len(all_functions) < Cardinality(FuncIds)
  /\ \E k \in 1 .. Len(all_functions) :
       Calls(<<all_functions[k].obj_index, all_functions[k].func_index>>) # {}

\* C6: after a successful emit func_offsets has, for every surviving function,
\* an entry under its bare source name whose value is the function's
\* global_linked_offset, also for two surviving non-global functions of the
\* same name in different objects.
C6_EveryFunctionInTable ==
  pc = "done" =>
    \A func \in Surviving :
      /\ func.name \in DOMAIN image[1].func_offsets
      /\ image[1].func_offsets[func.name] = func.global_linked_offset

\* C7: after a successful emit every (name, offset) of func_offsets has the
\* global_linked_offset of a surviving function as offset: the first byte of a
\* function inside the code image, a multiple of 8 and at least 104.
C7_OffsetsAreFunctionStarts ==
  pc = "done" =>
    \A name \in DOMAIN image[1].func_offsets :
      LET offset == image[1].func_offsets[name]
      IN /\ \E func \in Surviving :
              /\ func.global_linked_offset = offset
              /\ offset + 8 * Len(func.code) <= Len(image[1].code)
         /\ offset % 8 = 0
         /\ offset >= 104

\* an image of two objects with four entries in its offset table
C7_Witness ==
  /\ pc = "done"
  /\ Len(objects) = 2
  /\ Cardinality(DOMAIN image[1].func_offsets) >= 4

\* C8: every function the local linker produces has a non-empty body with
\* exactly one EXIT, which is its last instruction, before and after
\* patch_callee_saved_regs; after rewrite_image_call_return the last 8 bytes of
\* every surviving function in the code image encode JA dst=0 src=1 off=0 imm=0.
C8_ExitLastThenReturnJa ==
  /\ \A o \in 1 .. Len(Unpatched) : \A k \in 1 .. Len(Unpatched[o].functions) :
       ExitIsLastOnly(Unpatched[o].functions[k].code)
  /\ \A o \in 1 .. Len(Patched) : \A k \in 1 .. Len(Patched[o].functions) :
       ExitIsLastOnly(Patched[o].functions[k].code)
  /\ Rewritten =>
       \A func \in Surviving :
         ImageInsn(FinalCode, func.global_linked_offset + 8 * (Len(func.code) - 1))
           = Insn(JA, 0, 1, 0, 0)

\* a link that returned an image with a function that got a prologue and whose
\* source goes on after its first EXIT
C8_Witness ==
  /\ pc = "done"
  /\ \E func \in Surviving :
       LET src == Source(objects[1].elf, func)
       IN /\ SavedRegs(src, SourceCount(src)) # {}
          /\ Len(src.data) > src.start + 8 * (SourceCount(src) + 1)

\* C9: after patch_callee_saved_regs a function has (instructions before the
\* first EXIT of the source) + 1 + 2N + (2 if N > 0) instructions, N the number
\* of registers 6..9 that are dst in the body; the original instructions keep
\* their order and original_offset, the inserted ones have original_offset -1.
C9_PatchedLength ==
  \A o \in 1 .. Len(objects) : \A k \in 1 .. Len(objects[o].functions) :
    LET func == objects[o].functions[k]
        src == Source(objects[o].elf, func)
        count == SourceCount(src)
        n == Cardinality(SavedRegs(src, count))
        orig == SelectSeq(func.code, LAMBDA a : a.original_offset # -1)
    IN /\ Len(func.code) = count + 1 + 2 * n + (IF n > 0 THEN 2 ELSE 0)
       /\ Len(orig) = count + 1
       /\ \A j \in 1 .. Len(orig) : orig[j].original_offset = 8 * (j - 1)
       /\ orig[count + 1].insn.opc = EXIT
       /\ pc \in {"add_object", "populate_all_functions", "resolve_pseudo_calls"} =>
            \A j \in 1 .. count : orig[j].insn = SourceInsn(src, j - 1)

\* a patched function of two source instructions that writes two of r6..r9
C9_Witness ==
  /\ pc = "populate_all_functions"
  /\ \E k \in 1 .. Len(objects[1].functions) :
       LET src == Source(objects[1].elf, objects[1].functions[k])
       IN /\ SourceCount(src) >= 2
          /\ Cardinality(SavedRegs(src, SourceCount(src))) = 2

\* the c-th smallest register of S
RegAt(S, c) == CHOOSE r \in S : Cardinality({x \in S : x < r}) = c - 1

C10_Layout ==
  \A o \in 1 .. Len(objects) : \A k \in 1 .. Len(objects[o].functions) :
    LET func == objects[o].functions[k]
        src == Source(objects[o].elf, func)
        count == SourceCount(src)
        regs == SavedRegs(src, count)
        n == Cardinality(regs)
        code == func.code
    IN n >= 1 =>
         /\ Len(code) = 2 * n + count + 3
         /\ code[1].insn.opc = SUB64_IMM /\ code[1].insn.dst = 10
         /\ \A c \in 1 .. n :
              code[1 + c].insn = Insn(ST_DW_REG, 10, RegAt(regs, c), 8 * (c - 1), 0)
         /\ \A j \in 1 .. count :
              /\ code[1 + n + j].original_offset = 8 * (j - 1)
              /\ code[1 + n + j].insn.opc = SourceInsn(src, j - 1).opc
              /\ code[1 + n + j].insn.dst = SourceInsn(src, j - 1).dst
              /\ code[1 + n + j].insn.off = SourceInsn(src, j - 1).off
         /\ \A c \in 1 .. n :
              code[1 + n + count + c].insn = Insn(LD_DW_REG, RegAt(regs, c), 10, 8 * (c - 1), 0)
         /\ code[2 + 2 * n + count].insn = Insn(ADD64_IMM, 10, 0, 0, 8 * n)
         /\ code[3 + 2 * n + count].insn.opc = EXIT

C10_StackUsageKept ==
  [][pc = "patch_callee_saved_regs" =>
       \A k \in 1 .. Len(cur[1].functions) :
         Last(objects').functions[k].stack_usage = cur[1].functions[k].stack_usage]_vars

\* C10: a function that writes N >= 1 of r6..r9 is patched to SUB64_IMM r10,
\* N ST_DW_REG of the used registers in ascending order to [r10+0], [r10+8], ..,
\* the original body without its EXIT, N LD_DW_REG of the same registers from
\* the same offsets in the same order, ADD64_IMM r10 by 8N, EXIT; its
\* stack_usage is what it was before patching.
C10_PrologueEpilogue == []C10_Layout /\ C10_StackUsageKept

\* E6: a patched function that writes r6 and r8 only and stores below r10
C10_Witness ==
  /\ pc = "add_object"
  /\ \E k \in 1 .. Len(objects) : \E f \in 1 .. Len(objects[k].functions) :
       LET src == Source(objects[k].elf, objects[k].functions[f])
       IN /\ SavedRegs(src, SourceCount(src)) = {6, 8}
          /\ objects[k].functions[f].stack_usage = 16

\* the objects as patch_callee_saved_regs left them: no later pass has touched
\* their instructions yet
FreshlyPatched ==
  IF pc \in {"add_object", "populate_all_functions", "resolve_pseudo_calls"} THEN objects ELSE <<>>

\* the opening and the closing instruction of the callee-saved frame of every
\* freshly patched function that writes N >= 1 of r6..r9 carry sub and add(N)
FrameImmediates(sub(_), add(_)) ==
  \A o \in 1 .. Len(FreshlyPatched) : \A k \in 1 .. Len(FreshlyPatched[o].functions) :
    LET func == FreshlyPatched[o].functions[k]
        src == Source(FreshlyPatched[o].elf, func)
        n == Cardinality(SavedRegs(src, SourceCount(src)))
    IN n >= 1 =>
         /\ func.code[1].insn = Insn(SUB64_IMM, 10, 0, 0, sub(n))
         /\ func.code[Len(func.code) - 1].insn = Insn(ADD64_IMM, 10, 0, 0, add(n))

\* C11 as stated: the SUB64_IMM that opens a callee-saved prologue carries the
\* immediate -8*N (SUB64_IMM r10, -16 for a function that writes only r6 and
\* r8), the closing ADD64_IMM carries +8*N.
C11_SubImmNegative == FrameImmediates(LAMBDA n : -(8 * n), LAMBDA n : 8 * n)

\* C11, amended: the opening SUB64_IMM r10 and the closing ADD64_IMM r10 carry
\* the same immediate +8*N (SUB64_IMM r10, 16 for a function that writes only
\* r6 and r8): r10 is lowered by 8*N on entry and raised by 8*N before EXIT.
C11_SubImmPositive == FrameImmediates(LAMBDA n : 8 * n, LAMBDA n : 8 * n)

\* E6: a freshly patched function that writes r6 and r8 only
C11_Witness ==
  /\ pc = "add_object"
  /\ \E o \in 1 .. Len(objects) : \E k \in 1 .. Len(objects[o].functions) :
       LET src == Source(objects[o].elf, objects[o].functions[k])
       IN /\ SavedRegs(src, SourceCount(src)) = {6, 8}
          /\ objects[o].functions[k].code[1].insn.imm = 16

\* the positions in func.code of the calls that were bound to a function
BoundCalls(func) == {i \in Indices(func.code) : At(func.code, i).call_target_function # None}

\* in the image of a link, the JA of every bound call leads to its callee
C12_ImageCalls ==
  Rewritten =>
    \A k \in 1 .. Len(all_functions) :
      LET func == FuncOf(objects, all_functions[k]) IN
        \A i \in BoundCalls(func) :
          LET site == func.global_linked_offset + 8 * i
              t == At(func.code, i).call_target_function
              callee == At(At(objects, t[1]).functions, t[2])
              ja == ImageInsn(FinalCode, site)
          IN /\ ja.opc = JA /\ ja.src = 2
             /\ ja.off \in -32768 .. 32767
             /\ callee.global_linked_offset = site + 8 * (ja.off + 1)

\* the rewrite of one call gives a JA that leads to the target when the
\* displacement is in range and fails, leaving no bytes, when it is not
C12_CallStep ==
  [][pc = "rewrite_call" =>
       LET c == cur[1]
           d == ((c.target_offset - c.this_offset) \div 8) - 1
       IN IF d \in -32768 .. 32767
          THEN /\ pc' = "call_rewritten"
               /\ ImageInsn(code_image', 0).opc = JA
               /\ ImageInsn(code_image', 0).src = 2
               /\ c.target_offset = c.this_offset + 8 * (ImageInsn(code_image', 0).off + 1)
          ELSE /\ pc' = "failed"
               /\ err' # <<>>
               /\ code_image' = <<>>
               /\ image' = None]_vars

\* C12: for every call rewritten by rewrite_image_call_return the off field d
\* of the emitted JA satisfies callee.global_linked_offset = call_site_offset
\* + 8 * (d + 1) with d in [-32768, 32767]; whenever (target_offset -
\* this_offset) / 8 - 1 lies outside that range the rewrite fails with an
\* error instead of producing a truncated or wrapped displacement.
C12_CallDisplacement == []C12_ImageCalls /\ C12_CallStep

\* a call whose displacement is 32768, one past the largest i16, has failed
C12_Witness ==
  /\ pc = "failed"
  /\ cur # None
  /\ cur[1].this_offset = 104
  /\ cur[1].target_offset = 104 + 8 * 32769

\* a link whose image holds a call to a function in front of the call site
C12_BackwardCallInImage ==
  /\ pc = "done"
  /\ \E k \in 1 .. Len(all_functions) :
       LET func == FuncOf(objects, all_functions[k]) IN
         \E i \in BoundCalls(func) :
           ImageInsn(FinalCode, func.global_linked_offset + 8 * i).off < -1

\* the phases behind a successful resolve_pseudo_calls
CallsResolved ==
  pc \in {"resolve_generic_relocs", "global_dce", "emit_entry_trampoline", "emit_code_image",
          "rewrite_image_call_return", "emit_offset_table", "done"}

\* the keys the functions of all objects get in the merged table
AllKeys ==
  {FunctionKey(objects[o], objects[o].functions[k]) :
     <<o, k>> \in {x \in (1 .. Len(objects)) \X (1 .. 4) : x[2] <= Len(objects[x[1]].functions)}}

\* the relocations of the object file
ElfRelocs(elf) ==
  UNION {{elf.shdr_relocs[n].relocs[j] : j \in 1 .. Len(elf.shdr_relocs[n].relocs)} :
           n \in 1 .. Len(elf.shdr_relocs)}

\* the relocations of the object file against byte offset of section
ElfRelocsAt(elf, section, offset) ==
  {rs.relocs[j] :
     <<rs, j>> \in {x \in {elf.shdr_relocs[n] : n \in 1 .. Len(elf.shdr_relocs)} \X (1 .. 4) :
                     /\ x[2] <= Len(x[1].relocs)
                     /\ At(elf.section_headers, x[1].section).sh_info = section
                     /\ x[1].relocs[x[2]].r_offset = offset}}

\* the call sites <<o, k, i, sym>>: instruction i of function k of object o
\* comes from a pseudo-call of the source that has a relocation against sym
RelocatedCalls ==
  {<<x[1], x[2], x[3], At(objects[x[1]].elf.syms, r.r_sym)>> :
     <<x, r>> \in
       {y \in ((1 .. Len(objects)) \X (1 .. 4) \X (1 .. 8)) \X
                UNION {ElfRelocs(objects[o].elf) : o \in 1 .. Len(objects)} :
          LET o == y[1][1]  k == y[1][2]  i == y[1][3] IN
            /\ k <= Len(objects[o].functions)
            /\ i <= Len(objects[o].functions[k].code)
            /\ LET func == objects[o].functions[k]
                   a == func.code[i]
               IN /\ a.original_offset >= 0
                  /\ y[2] \in ElfRelocsAt(objects[o].elf, func.section_index,
                                          func.offset + a.original_offset)
                  /\ LET was == SourceInsn(Source(objects[o].elf, func), a.original_offset \div 8)
                     IN was.opc = CALL /\ was.src = 1}}

\* is the name a key of the merged table, bare or qualified with the object's name
NamesFunction(o, name) ==
  name \in AllKeys \/ QualifiedName(objects[o].name, name) \in AllKeys

\* the index of helper name: host_platform.helpers first, then target_machine.helpers
HelperIndex(name) ==
  IF name \in DOMAIN config.host_platform.helpers THEN config.host_platform.helpers[name]
  ELSE config.target_machine.helpers[name]

IsHelper(name) ==
  name \in DOMAIN config.host_platform.helpers \cup DOMAIN config.target_machine.helpers

\* C13: a relocated pseudo-call whose symbol is undefined in its object and
\* whose name is in neither form a key of the merged function table is bound
\* to a helper: src = 0, imm = the index from host_platform.helpers if the
\* name is there and else from target_machine.helpers, no call target
\* recorded, and the final code image holds that CALL (E4: printk -> 7).
C13_HelperBinding ==
  CallsResolved =>
    \A c \in RelocatedCalls :
      LET o == c[1]  sym == c[4]
          func == objects[o].functions[c[2]]
          a == func.code[c[3]]
      IN (sym.st_shndx = SHN_UNDEF /\ ~NamesFunction(o, sym.st_name)) =>
           /\ IsHelper(sym.st_name)
           /\ a.insn.opc = CALL /\ a.insn.src = 0
           /\ a.insn.imm = HelperIndex(sym.st_name)
           /\ a.call_target_function = None
           /\ (Rewritten /\ func \in Surviving) =>
                LET ja == ImageInsn(FinalCode, func.global_linked_offset + 8 * (c[3] - 1))
                IN ja.opc = CALL /\ ja.src = 0 /\ ja.imm = HelperIndex(sym.st_name)

\* E4 with both helper tables: the image holds the call of printk as CALL 7
C13_Witness ==
  /\ pc = "done"
  /\ "printk" \in DOMAIN config.host_platform.helpers
  /\ "printk" \in DOMAIN config.target_machine.helpers
  /\ \E c \in RelocatedCalls :
       /\ c[4].st_name = "printk" /\ c[4].st_shndx = SHN_UNDEF
       /\ ~NamesFunction(c[1], "printk")
       /\ ImageInsn(FinalCode,
                    objects[c[1]].functions[c[2]].global_linked_offset + 8 * (c[3] - 1))
            = Insn(CALL, 0, 0, 0, 7)

\* the helper memcpy, which only target_machine.helpers names, bound as CALL 4
C13_MachineHelperBound ==
  /\ pc = "done"
  /\ config.host_platform.helpers # NoHelpers
  /\ \E c \in RelocatedCalls :
       /\ c[4].st_name = "memcpy"
       /\ objects[c[1]].functions[c[2]].code[c[3]].insn = Insn(CALL, 0, 0, 0, 4)

\* the names of the global functions of object o
GlobalNames(o) ==
  {objects[o].functions[k].name :
     k \in {j \in 1 .. Len(objects[o].functions) : objects[o].functions[j].global}}

\* the names of the non-global functions of object o
StaticNames(o) ==
  {objects[o].functions[k].name :
     k \in {j \in 1 .. Len(objects[o].functions) : ~objects[o].functions[j].global}}

\* two objects that each define a global function of one name: <<o1, o2, name>>
GlobalClashes ==
  {x \in (1 .. Len(objects)) \X (1 .. Len(objects)) \X UNION {GlobalNames(o) : o \in 1 .. Len(objects)} :
     x[1] < x[2] /\ x[3] \in GlobalNames(x[1]) /\ x[3] \in GlobalNames(x[2])}

\* the merged table after the step binds key to function name of object o
Merged(af, key, o, name) ==
  \E e \in 1 .. Len(af) :
    /\ af[e].key = key
    /\ af[e].obj_index = o - 1
    /\ At(objects[o].functions, af[e].func_index).name = name

\* the keys of the functions of object o
KeysOf(o) == GlobalNames(o) \cup {QualifiedName(objects[o].name, n) : n \in StaticNames(o)}

\* two objects with a function of one key: <<o1, o2, key>>; the keys of
\* non-global functions meet only when the objects have the same name
Clashes ==
  {x \in (1 .. Len(objects)) \X (1 .. Len(objects)) \X UNION {KeysOf(o) : o \in 1 .. Len(objects)} :
     x[1] < x[2] /\ x[3] \in KeysOf(x[1]) /\ x[3] \in KeysOf(x[2])}

C14_MergeStep ==
  [][pc = "populate_all_functions" =>
       /\ GlobalClashes # {} => pc' = "failed"
       /\ pc' = "failed" =>
            \E x \in Clashes :
              /\ err' = <<"multiple definitions of function", x[3],
                          objects[x[1]].name, objects[x[2]].name>>
              /\ x[3] \notin GlobalNames(x[1]) => objects[x[1]].name = objects[x[2]].name
       /\ pc' # "failed" =>
            \A o \in 1 .. Len(objects) :
              /\ \A n \in StaticNames(o) :
                   Merged(all_functions', QualifiedName(objects[o].name, n), o, n)
              /\ \A n \in GlobalNames(o) : Merged(all_functions', n, o, n)]_vars

\* a failed link holds no image and takes no further step
C14_NoImageOnFailure == pc = "failed" => image = None

C14_FailureIsFinal == [][pc # "failed"]_vars

\* C14: two objects that each define a global function of one name make the
\* link fail with a multiple-definition error that names both objects, and no
\* image is returned; non-global functions of one name in objects with
\* different object names never collide, both enter the merged table under
\* object_name:function_name.
C14_Collisions == C14_MergeStep /\ []C14_NoImageOnFailure /\ C14_FailureIsFinal

\* g.o and m.o both define the global main: the link has failed naming both
C14_Witness ==
  /\ pc = "failed"
  /\ err = <<"multiple definitions of function", "main", "g.o", "m.o">>

\* x.o and y.o, each with a static h, merged under x.o:h and y.o:h
C14_StaticsCoexist ==
  /\ pc = "done"
  /\ Len(objects) = 2
  /\ objects[1].name = "x.o" /\ objects[2].name = "y.o"
  /\ Merged(all_functions, "x.o:h", 1, "h")
  /\ Merged(all_functions, "y.o:h", 2, "h")

\* the relocated pseudo-calls that name no function and that no helper of an
\* imported (undefined) symbol stands for
Unresolvable ==
  {c \in RelocatedCalls :
     /\ ~NamesFunction(c[1], c[4].st_name)
     /\ ~(c[4].st_shndx = SHN_UNDEF /\ IsHelper(c[4].st_name))}

\* C15: a relocated pseudo-call whose symbol name is not a key of the merged
\* function table, neither bare nor qualified with the calling object's name,
\* makes the link fail unless the symbol is an import (undefined in its
\* object) and the name is registered in host_platform.helpers or
\* target_machine.helpers; a call to a function that is non-global in another
\* object is fatal (E3), and so is a non-import unresolved symbol even when a
\* helper of that name exists.
C15_UnresolvedIsFatal ==
  [][(pc = "resolve_pseudo_calls" /\ Unresolvable # {}) => pc' = "failed"]_vars

\* the call sites <<o, k, i>> that come from a pseudo-call of the source that
\* has no relocation at its offset
UnrelocatedCalls ==
  {x \in (1 .. Len(objects)) \X (1 .. 4) \X (1 .. 8) :
     LET o == x[1]  k == x[2]  i == x[3] IN
       /\ k <= Len(objects[o].functions)
       /\ i <= Len(objects[o].functions[k].code)
       /\ LET func == objects[o].functions[k]
              a == func.code[i]
          IN /\ a.original_offset >= 0
             /\ ElfRelocsAt(objects[o].elf, func.section_index,
                            func.offset + a.original_offset) = {}
             /\ LET was == SourceInsn(Source(objects[o].elf, func), a.original_offset \div 8)
                IN was.opc = CALL /\ was.src = 1}

\* the functions of the caller's object and section that start at
\* caller.offset + original_offset of the call + (imm + 1) * 8, as <<obj, func>>
StartsAtTarget(c) ==
  LET func == objects[c[1]].functions[c[2]]
      a == func.code[c[3]]
      target == func.offset + a.original_offset + (a.insn.imm + 1) * 8
  IN {<<c[1] - 1, k - 1>> :
        k \in {j \in 1 .. Len(objects[c[1]].functions) :
                 /\ objects[c[1]].functions[j].section_index = func.section_index
                 /\ objects[c[1]].functions[j].offset = target}}

C16_MissIsFatal ==
  /\ pc = "failed"
  /\ err = <<"missing function at target offset">>
  /\ \E c \in UnrelocatedCalls : objects[c[1]].functions[c[2]].code[c[3]].insn.imm = -3

\* the relocation entries <<o, r>> the objects hold whose symbol is not
\* STB_LOCAL, whose type is neither R_BPF_64_64 nor R_BPF_64_32 or whose
\* symbol lies in a section that is not part of the data image
Unsupported ==
  {x \in (1 .. Len(objects)) \X (1 .. 4) :
     /\ x[2] <= Len(objects[x[1]].reloc)
     /\ LET elf == objects[x[1]].elf
            reloc == objects[x[1]].reloc[x[2]].reloc
            sym == At(elf.syms, reloc.r_sym)
        IN \/ sym.st_bind # STB_LOCAL
           \/ reloc.r_type \notin {R_BPF_64_64, R_BPF_64_32}
           \/ ~HasSection(elf, sym.st_shndx)
           \/ ~IsDataSection(At(elf.section_headers, sym.st_shndx))}

C17_Refused ==
  [][(pc = "resolve_generic_relocs" /\ Unsupported # {}) =>
       (pc' = "failed" /\ err' # <<>> /\ image' = None)]_vars

C17_RefusedForGood == [][pc = "failed" => pc' = "failed" /\ image' = None]_vars

\* C17: every relocation that remains after pseudo-call resolution, in any
\* function of any object whether or not the function is reachable from the
\* DCE roots, makes the link fail with no image if its symbol's binding is not
\* STB_LOCAL, if its r_type is neither R_BPF_64_64 (1) nor R_BPF_64_32 (10) or
\* if its symbol's section was not placed in the data image.
C17_UnsupportedRelocsFail == C17_Refused /\ C17_RefusedForGood

\* a relocation against a global symbol, in a function no DCE root reaches,
\* has failed the link
C17_Witness ==
  /\ pc = "failed"
  /\ err = <<"non-local data relocation is not supported">>
  /\ config.dce_roots = Some(<<"nowhere">>)
  /\ Unsupported # {}

\* a relocation against a symbol of .text, which is no part of the data image
C17_SectionNotPlaced ==
  /\ pc = "failed"
  /\ err = <<"data offset not found">>
  /\ Unsupported # {}

\* a relocation of a type that is neither R_BPF_64_64 nor R_BPF_64_32
C17_TypeRefused ==
  /\ pc = "failed"
  /\ err = <<"unsupported relocation type">>
  /\ Unsupported # {}

\* the trampoline, instruction by instruction
TrampolineAt(j) ==
  IF j = 0 THEN Insn(MOV32_IMM, 10, 0, 0, 0)
  ELSE IF j <= 10 THEN Insn(LD_DW_REG, j - 1, 10, 8 * (j - 1), 0)
  ELSE IF j = 11 THEN Insn(ADD64_IMM, 10, 0, 0, 80)
  ELSE Insn(JA, 0, 1, 0, 0)

\* the end of the function at position k of the merged table (of the
\* trampoline for k = 0)
RECURSIVE EndOf(_)
EndOf(k) ==
  IF k = 0 THEN 104
  ELSE EndOf(k - 1) + 8 * Len(FuncOf(objects, all_functions[k]).code)

\* C18: every successful emit gives a code image that starts with the same
\* 104 bytes, the 13 instructions MOV32_IMM r10, 0; LD_DW_REG r_i, [r10 + 8i]
\* for i = 0..9; ADD64_IMM r10, 80; JA src=1 off=0 imm=0.  The surviving
\* functions follow contiguously, without overlap, in merged-table order
\* (objects in add order, functions in symbol order, DCE keeping the order):
\* the first starts at 104, each next one at the previous start + 8 * its
\* instruction count, every global_linked_offset is a multiple of 8; with no
\* input object the image is the trampoline alone, with empty data and an
\* empty offset table.
C18_Layout ==
  pc = "done" =>
    LET img == image[1] IN
      /\ Len(img.code) >= 104
      /\ \A j \in 0 .. 12 : ImageInsn(img.code, 8 * j) = TrampolineAt(j)
      /\ \A k \in 1 .. Len(all_functions) :
           LET func == FuncOf(objects, all_functions[k]) IN
             /\ func.global_linked_offset = EndOf(k - 1)
             /\ func.global_linked_offset % 8 = 0
             /\ \A i \in 1 .. Len(func.code) :
                  LET e == ImageInsn(img.code, func.global_linked_offset + 8 * (i - 1))
                  IN e.dst = func.code[i].insn.dst
                     /\ (func.code[i].insn.opc \notin {CALL, EXIT} => e = func.code[i].insn)
      /\ \A k \in 1 .. (Len(all_functions) - 1) :
           \/ all_functions[k].obj_index < all_functions[k + 1].obj_index
           \/ /\ all_functions[k].obj_index = all_functions[k + 1].obj_index
              /\ all_functions[k].func_index < all_functions[k + 1].func_index
      /\ Len(img.code) = EndOf(Len(all_functions))
      /\ objects = <<>> =>
           /\ Len(img.code) = 104
           /\ img.data = <<>>
           /\ DOMAIN img.func_offsets = {}

\* a link of two objects where DCE dropped a function and kept functions of
\* both objects
C18_Witness ==
  /\ pc = "done"
  /\ config.dce_roots # None
  /\ Len(objects) = 2
  /\ Len(all_functions) >= 2
  /\ all_functions[1].obj_index = 0
  /\ all_functions[Len(all_functions)].obj_index = 1
  /\ Cardinality(AllKeys) > Len(all_functions)
  /\ Len(image[1].code) = EndOf(Len(all_functions))

\* the link of no object at all
C18_NoObjects ==
  /\ pc = "done"
  /\ objects = <<>>
  /\ Len(image[1].code) = 104

\* the greatest element of a set of naturals, 0 for the empty set
Greatest(S) == IF S = {} THEN 0 ELSE CHOOSE x \in S : \A y \in S : y <= x

\* is source instruction k a store through r10, and is it one below r10
StoresThroughR10(src, k) ==
  /\ SourceInsn(src, k).opc % 8 \in {BPF_ST, BPF_STX}
  /\ SourceInsn(src, k).dst = 10

\* -off of the stores below r10 among the first n source instructions
StoreDepths(src, n) ==
  {-SourceInsn(src, k).off :
     k \in {j \in 0 .. (n - 1) : StoresThroughR10(src, j) /\ SourceInsn(src, j).off < 0}}

\* the source instructions of the body that are neither loads nor stores and
\* have r10 as src
Escapes(src) ==
  {k \in 0 .. (SourceCount(src) - 1) :
     /\ SourceInsn(src, k).opc % 8 \notin {BPF_LD, BPF_LDX, BPF_ST, BPF_STX}
     /\ SourceInsn(src, k).src = 10}

FirstEscape(src) == CHOOSE k \in Escapes(src) : \A j \in Escapes(src) : k <= j

\* a store at the least i16 offset among the first n source instructions
LeastOffsetStore(src, n) ==
  \E k \in 0 .. (n - 1) : StoresThroughR10(src, k) /\ SourceInsn(src, k).off = -32768

C19_LargerOf512 ==
  \A o \in 1 .. Len(objects) : \A k \in 1 .. Len(objects[o].functions) :
    LET func == objects[o].functions[k]
        src == Source(objects[o].elf, func)
    IN (Escapes(src) # {} /\ ~LeastOffsetStore(src, FirstEscape(src))) =>
         func.stack_usage = Max2(512, Greatest(StoreDepths(src, FirstEscape(src))))

\* the pass succeeds on an object in whose functions r10 escapes before any
\* store at offset -32768: what follows the escape is not looked at
C19_ScanStops ==
  [][(/\ pc = "calculate_stack_usage"
      /\ \A k \in 1 .. Len(cur[1].functions) :
           LET src == Source(cur[1].elf, cur[1].functions[k])
           IN Escapes(src) # {} /\ ~LeastOffsetStore(src, FirstEscape(src)))
       => pc' = "patch_callee_saved_regs"]_vars

C19_StoreAfterEscape ==
  \E o \in 1 .. Len(objects) : \E k \in 1 .. Len(objects[o].functions) :
    LET func == objects[o].functions[k]
        src == Source(objects[o].elf, func)
    IN /\ Escapes(src) # {}
       /\ StoreDepths(src, FirstEscape(src)) = {}
       /\ 1024 \in StoreDepths(src, SourceCount(src))
       /\ func.stack_usage = 512

\* the stack usage of every linked function without an escape is the deepest
\* store below r10 of its body
C20_DeepestStore ==
  \A o \in 1 .. Len(objects) : \A k \in 1 .. Len(objects[o].functions) :
    LET func == objects[o].functions[k]
        src == Source(objects[o].elf, func)
    IN Escapes(src) = {} => func.stack_usage = Greatest(StoreDepths(src, SourceCount(src)))

\* the pass succeeds on an object without an escape
C20_PassSucceeds ==
  [][(/\ pc = "calculate_stack_usage"
      /\ \A k \in 1 .. Len(cur[1].functions) :
           Escapes(Source(cur[1].elf, cur[1].functions[k])) = {})
       => pc' = "patch_callee_saved_regs"]_vars

\* C20: for a function in which r10 is never the src of an instruction that
\* is neither a load nor a store, stack_usage is the maximum of -off over the
\* ST and STX class instructions with dst = 10 and off < 0 (0 without one),
\* for every i16 off, -32768 included; stores with off >= 0 and the spill
\* stores of patch_callee_saved_regs do not change it.
C20_StackUsageIsDeepestStore == []C20_DeepestStore /\ C20_PassSucceeds

\* the same for the functions without a store at offset -32768
C20_DeepestStoreAbove ==
  \A o \in 1 .. Len(objects) : \A k \in 1 .. Len(objects[o].functions) :
    LET func == objects[o].functions[k]
        src == Source(objects[o].elf, func)
    IN (Escapes(src) = {} /\ ~LeastOffsetStore(src, SourceCount(src))) =>
         func.stack_usage = Greatest(StoreDepths(src, SourceCount(src)))

\* C21: every instruction with a call_target is overwritten in the code image
\* by a JA with dst = 0, src = 2 and imm = -(stack_usage of the calling
\* function + 8); neither the stack_usage of the callee nor the size of a
\* callee-saved save area enters imm.  (stack_usage + 8) as i32 keeps the low
\* 32 bits: for a stack_usage of 0 .. 32767 that is stack_usage + 8, for the
\* wrapped 2^64 - 32768, held here as its signed reading -32768, it is -32760.
C21_CallerFrame ==
  Rewritten =>
    \A k \in 1 .. Len(all_functions) :
      LET func == FuncOf(objects, all_functions[k]) IN
        \A i \in BoundCalls(func) :
          LET ja == ImageInsn(FinalCode, func.global_linked_offset + 8 * i)
          IN /\ ja.opc = JA
             /\ ja.dst = 0
             /\ ja.src = 2
             /\ func.stack_usage \in -32768 .. 32767
             /\ ja.imm = -(func.stack_usage + 8)

\* a caller with a frame of 16 bytes and a save area calls a function with a
\* frame of 1024 bytes and a save area: the JA carries -24
C21_Witness ==
  /\ pc = "done"
  /\ \E k \in 1 .. Len(all_functions) :
       LET func == FuncOf(objects, all_functions[k]) IN
         \E i \in BoundCalls(func) :
           LET t == At(func.code, i).call_target_function
               callee == At(At(objects, t[1]).functions, t[2])
           IN /\ func.stack_usage = 16
              /\ func.code[1].insn.opc = SUB64_IMM
              /\ callee.stack_usage = 1024
              /\ callee.code[1].insn.opc = SUB64_IMM
              /\ ImageInsn(FinalCode, func.global_linked_offset + 8 * i).imm = -24

\* a caller in which r10 escapes: the JA carries -520
C21_EscapedCaller ==
  /\ pc = "done"
  /\ \E k \in 1 .. Len(all_functions) :
       LET func == FuncOf(objects, all_functions[k]) IN
         \E i \in BoundCalls(func) :
           /\ func.stack_usage = 512
           /\ ImageInsn(FinalCode, func.global_linked_offset + 8 * i).imm = -520

\* the instructions <<k, i>> (position in the merged table, position in the
\* code from 1) that were CALL with src = 1 in the object file
InputPseudoCalls ==
  {x \in (1 .. Len(all_functions)) \X (1 .. 8) :
     LET e == all_functions[x[1]]
         func == FuncOf(objects, e)
         src == Source(At(objects, e.obj_index).elf, func)
     IN /\ x[2] <= Len(func.code)
        /\ func.code[x[2]].original_offset >= 0
        /\ func.code[x[2]].original_offset < 8 * SourceCount(src)
        /\ SourceInsn(src, func.code[x[2]].original_offset \div 8).opc = CALL
        /\ SourceInsn(src, func.code[x[2]].original_offset \div 8).src = 1}

\* the instruction of the image at position i of the function at position k
EmittedAt(k, i) ==
  ImageInsn(image[1].code, FuncOf(objects, all_functions[k]).global_linked_offset + 8 * (i - 1))

\* C22: on a successful emit every instruction of a surviving function that
\* was a pseudo-call (CALL with src = 1) in the input either carries a
\* call_target and is emitted as JA with src = 2, or was bound to a helper and
\* is emitted as CALL with src = 0; the function part of the final code image
\* holds no instruction with opcode EXIT and no CALL with src = 1.
C22_CallsSettled ==
  pc = "done" =>
    /\ \A x \in InputPseudoCalls :
         LET a == FuncOf(objects, all_functions[x[1]]).code[x[2]]
             e == EmittedAt(x[1], x[2])
         IN IF a.call_target_function # None
            THEN e.opc = JA /\ e.src = 2
            ELSE /\ e.opc = CALL /\ e.src = 0
                 /\ a.insn.src = 0
                 /\ \E n \in DOMAIN config.host_platform.helpers \cup
                               DOMAIN config.target_machine.helpers :
                      e.imm \in {h[n] : h \in {g \in {config.host_platform.helpers,
                                                        config.target_machine.helpers} :
                                                 n \in DOMAIN g}}
    /\ \A j \in 13 .. ((Len(image[1].code) \div 8) - 1) :
         LET e == ImageInsn(image[1].code, 8 * j)
         IN e.opc # EXIT /\ ~(e.opc = CALL /\ e.src = 1)

\* an image with a call bound to a helper and the return of its function
C22_Witness ==
  /\ pc = "done"
  /\ \E x \in InputPseudoCalls :
       /\ FuncOf(objects, all_functions[x[1]]).code[x[2]].call_target_function = None
       /\ EmittedAt(x[1], x[2]).opc = CALL
       /\ EmittedAt(x[1], x[2]).imm = 7
       /\ EmittedAt(x[1], x[2] + 1) = Insn(JA, 0, 1, 0, 0)

\* an image with a call bound to a function
C22_FunctionCall ==
  /\ pc = "done"
  /\ \E x \in InputPseudoCalls :
       /\ FuncOf(objects, all_functions[x[1]]).code[x[2]].call_target_function # None
       /\ EmittedAt(x[1], x[2]).src = 2

\* the non-global functions of object o with the name, as <<obj, func>>
OwnStatics(o, name) ==
  {<<o - 1, j - 1>> :
     j \in {f \in 1 .. Len(objects[o].functions) :
              objects[o].functions[f].name = name /\ ~objects[o].functions[f].global}}

\* C23: a relocated pseudo-call in object X whose symbol names a non-global
\* function defined in X resolves to X's own function, the entry keyed X:name,
\* whatever the other objects define, also when another object defines a
\* global function of that name.
C23_OwnStaticWins ==
  CallsResolved =>
    \A c \in RelocatedCalls :
      OwnStatics(c[1], c[4].st_name) # {} =>
        objects[c[1]].functions[c[2]].code[c[3]].call_target_function
          \in OwnStatics(c[1], c[4].st_name)

\* the same when no object defines a global function of the name
C23_OwnStaticUnshadowed ==
  CallsResolved =>
    \A c \in RelocatedCalls :
      (OwnStatics(c[1], c[4].st_name) # {} /\ c[4].st_name \notin AllKeys) =>
        objects[c[1]].functions[c[2]].code[c[3]].call_target_function
          \in OwnStatics(c[1], c[4].st_name)

\* a call to an own static function next to another object's static function
\* of the same name
C23_TwoStatics ==
  /\ CallsResolved
  /\ Len(objects) = 2
  /\ \E c \in RelocatedCalls :
       /\ OwnStatics(c[1], c[4].st_name) # {}
       /\ OwnStatics(3 - c[1], c[4].st_name) # {}

\* the phases behind emit_data
DataEmitted ==
  pc \in {"populate_all_functions", "resolve_pseudo_calls", "resolve_generic_relocs",
          "global_dce", "emit_entry_trampoline", "emit_code_image",
          "rewrite_image_call_return", "emit_offset_table", "done"}

\* the sections <<object index, section index>> (from 0) that are PROGBITS
\* (type 1) with SHF_ALLOC (2) set and SHF_EXECINSTR (4) clear
Qualifying ==
  {x \in (0 .. (Len(objects) - 1)) \X (0 .. 8) :
     /\ x[2] < Len(At(objects, x[1]).elf.section_headers)
     /\ LET shdr == At(At(objects, x[1]).elf.section_headers, x[2])
        IN /\ shdr.sh_type = 1
           /\ (shdr.sh_flags \div 2) % 2 = 1
           /\ (shdr.sh_flags \div 4) % 2 = 0}

Before(x, y) == x[1] < y[1] \/ (x[1] = y[1] /\ x[2] < y[2])

SectionBytes(x) == At(At(objects, x[1]).elf.section_headers, x[2]).data

\* the bytes of the sections of S, by object index and then section index
RECURSIVE InOrder(_)
InOrder(S) ==
  IF S = {} THEN <<>>
  ELSE LET x == CHOOSE y \in S : \A z \in S \ {y} : Before(y, z)
       IN SectionBytes(x) \o InOrder(S \ {x})

\* a >= b for two u32 held as signed readings
UGe(a, b) == IF (a < 0) = (b < 0) THEN a >= b ELSE a < 0

\* the data image, the recorded sections and their bases
C24_DataLayout ==
  DataEmitted =>
    LET d == config.host_platform.data_offset IN
      /\ (IF image # None THEN image[1].data ELSE data_image) = InOrder(Qualifying)
      /\ {<<e.obj, e.section>> : e \in data_section_to_offset} = Qualifying
      /\ Cardinality(data_section_to_offset) = Cardinality(Qualifying)
      /\ \A e \in data_section_to_offset :
           /\ UGe(e.offset, d)
           /\ e.offset - d = Len(InOrder({y \in Qualifying : Before(y, <<e.obj, e.section>>)}))
      /\ \A e1, e2 \in data_section_to_offset :
           Before(<<e1.obj, e1.section>>, <<e2.obj, e2.section>>) =>
             /\ UGe(e2.offset, e1.offset)
             /\ e2.offset - e1.offset >= Len(SectionBytes(<<e1.obj, e1.section>>))

\* emit_data ends with the image and the bases
C24_EmitDataSucceeds == [][(pc = "add_object" /\ pending = <<>>) => pc' # "failed"]_vars

\* C24: the data image is the concatenation, by object index and then section
\* index, of the raw bytes of exactly the sections with sh_type = SHT_PROGBITS,
\* SHF_ALLOC set and SHF_EXECINSTR clear; the base recorded for (object,
\* section) is host_platform.data_offset plus the total length of the
\* qualifying sections in front of it, so the recorded ranges of distinct
\* sections never overlap.
C24_DataImage == []C24_DataLayout /\ C24_EmitDataSucceeds

\* the same for the links whose data ends below 2^32
C24_DataLayoutInRange ==
  (DataEmitted /\ config.host_platform.data_offset >= 0) => C24_DataLayout

C24_EmitDataSucceedsInRange ==
  [][(pc = "add_object" /\ pending = <<>> /\ config.host_platform.data_offset >= 0)
       => pc' # "failed"]_vars

\* the relocations of the object file elf with the section they apply to:
\* <<sh_info, reloc>>
TargetedRelocs(elf) ==
  UNION {{<<At(elf.section_headers, elf.shdr_relocs[n].section).sh_info,
            elf.shdr_relocs[n].relocs[j]>> : j \in 1 .. Len(elf.shdr_relocs[n].relocs)} :
           n \in 1 .. Len(elf.shdr_relocs)}

\* the functions (index from 0) of fs in section s whose range holds r_offset
Holders(fs, s, r_offset) ==
  {k \in Indices(fs) :
     /\ At(fs, k).section_index = s
     /\ At(fs, k).offset <= r_offset
     /\ r_offset < At(fs, k).end_offset}

\* the entries the relocations of elf have by the rule of ranges
Attributed(elf, fs) ==
  UNION {{[func_index |-> k, offset |-> t[2].r_offset - At(fs, k).offset, reloc |-> t[2]] :
            k \in Holders(fs, t[1], t[2].r_offset)} : t \in TargetedRelocs(elf)}

\* C25: a relocation of a target section is attributed to function index k
\* exactly when function k lies in that section (the sh_info of the relocation
\* section) and offset_k <= r_offset < end_offset_k, and is then keyed
\* (k, r_offset - offset_k); a relocation for which no function of the section
\* satisfies this is dropped, without failing the link and without changing
\* an instruction.
C25_Attribution ==
  [][pc = "populate_reloc" =>
       /\ pc' = "calculate_stack_usage"
       /\ {cur'[1].reloc[i] : i \in 1 .. Len(cur'[1].reloc)}
            = Attributed(cur[1].elf, cur[1].functions)
       /\ cur'[1].functions = cur[1].functions]_vars

\* the same for the relocations that no two functions hold
C25_AttributionDisjoint ==
  [][(/\ pc = "populate_reloc"
      /\ \A t \in TargetedRelocs(cur[1].elf) :
           Cardinality(Holders(cur[1].functions, t[1], t[2].r_offset)) <= 1)
       => /\ pc' = "calculate_stack_usage"
          /\ {cur'[1].reloc[i] : i \in 1 .. Len(cur'[1].reloc)}
               = Attributed(cur[1].elf, cur[1].functions)
          /\ cur'[1].functions = cur[1].functions]_vars

\* a link whose relocations were all dropped returns the instructions of
\* the source
C25_DroppedChangesNothing ==
  (pc = "done" /\ \A o \in 1 .. Len(objects) :
                    Attributed(objects[o].elf, objects[o].functions) = {}) =>
    \A o \in 1 .. Len(objects) : \A k \in 1 .. Len(objects[o].functions) :
      LET func == objects[o].functions[k]
          src == Source(objects[o].elf, func)
      IN \A i \in 1 .. SourceCount(src) : func.code[i].insn = SourceInsn(src, i - 1)

\* a finished link with a relocation nothing holds
C25_Dropped ==
  /\ pc = "done"
  /\ \E o \in 1 .. Len(objects) :
       /\ TargetedRelocs(objects[o].elf) # {}
       /\ Attributed(objects[o].elf, objects[o].functions) = {}

(***************************************************************************)
(* The device runner: Device (device.rs) and DataMemory's DMA requests     *)
(* (dm.rs).  The driver behind the descriptor is the environment: a read   *)
(* returns any exception state, an ioctl succeeds or fails.  A request is  *)
(* in progress on the descriptor from its system call to the return of    *)
(* that call; dev.file is the tokio Mutex around the descriptor: None      *)
(* while unlocked, the task that holds the guard otherwise.                *)
(***************************************************************************)
\* the iterations a polling loop of run is followed through before the awaited code arrives
MaxPolls == 1

\* the single operations the second task calls
MaxCalls == 1

\* STOP | INTR, 0x80000007, in the two's-complement reading of the u32
StoppedIntr == -2147483641

\* stop_and_wait leaving its loop on any code with bit 31 set
IsStoppedAnyHalt(code) == code < 0

\* es.code == 0x80000007u32
IsStopped(code) == code = StoppedIntr

\* es.code & 0x80000000u32 != 0: bit 31 is the sign of the signed reading
IsTerminated(code) == code < 0

\* what one read of the descriptor may return for the two PEs (code per PE)
ExceptionStates ==
  {<<StoppedIntr, 0>>, <<0, StoppedIntr>>, <<-2147483647, 0>>, <<0, -2147483647>>}

\* wbpf_uapi_performance_counters as the driver may fill it
PerfCounters == {[cycles |-> c, commits |-> c] : c \in {0, 1}}

\* a u64 (an i64 alike) as its two 32-bit halves
Word(hi, lo) == [hi |-> hi, lo |-> lo]

\* (state_snapshot[10] << 32) | (offset as u64): the shift keeps the low half of the
\* register in the high half, the i32 offset is sign-extended before the or
EntryWord(r, offset) == Word(IF offset < 0 THEN -1 ELSE r.lo, offset)

\* state_snapshot of run: registers 0..10 as u64, then word 10 rewritten
state_snapshot(registers, offset) ==
  [i \in 1 .. 11 |-> IF i < 11 THEN registers[i] ELSE EntryWord(registers[11], offset)]

\* the image run was given, and the MachineState and PE of the call
RunImage == image[1]
RunState == dev.state[1]

\* the points of run, and of a single operation, where an ioctl is issued
IoctlPoints ==
  {"stop", "load_code", "do_dma_write", "do_dma_read", "start_perfctr", "start",
   "end_perfctr", "read_perf_counters"}

\* the points where read_exception_state is called
ReadPoints == {"stop_and_wait", "wait", "read_exception_state"}

\* the arguments of the ioctl issued at point p of run
RunRequest(p) ==
  CASE p = "stop" -> [op |-> "stop", pe_index |-> RunState.pe_index]
    [] p = "load_code" ->
         [op |-> "load_code", pe_index |-> RunState.pe_index, offset |-> 0,
          code |-> RunImage.code]
    [] p = "do_dma_write" ->
         [op |-> "do_dma_write", offset |-> 0,
          data |-> state_snapshot(RunState.registers,
                                  RunImage.func_offsets[RunState.entry_point])]
    [] p = "start" -> [op |-> "start", pe_index |-> RunState.pe_index, pc |-> 0]
    [] OTHER -> [op |-> "read_perf_counters", pe_index |-> RunState.pe_index]

\* where run goes on after the ioctl of point p returned Ok
AfterIoctl(p) ==
  CASE p = "stop" -> "stop_and_wait"
    [] p = "load_code" -> "offset_table"
    [] p = "do_dma_write" -> "start_perfctr"
    [] p = "start_perfctr" -> "start"
    [] p = "start" -> "wait"
    [] OTHER -> "returned"

\* a panic unwound the method (its Result is Ok(()) or Err(..) otherwise)
Panic(e) == [ok |-> FALSE, value |-> <<>>, err |-> e, panic |-> TRUE]

\* the method returned (or unwound): the runner is done, the other task may call again
Return(t, r) ==
  [dev.task[t] EXCEPT !.pc = IF t = "run" THEN "returned" ELSE "idle",
                      !.request = None, !.polls = 0, !.result = r]

Logged(t, entry) == IF t = "run" THEN Append(dev.log, entry) ELSE dev.log

\* wbpfctl run: Device::run is called with the linked image
run(state) ==
  /\ pc = "done"
  /\ dev.task["run"].pc = "idle"
  /\ dev' = [dev EXCEPT !.state = Some(state), !.task["run"].pc = "stop"]
  /\ UNCHANGED linker_vars

\* a task that shares a clone of the Device calls one operation of it
call(op) ==
  /\ pc = "done"
  /\ dev.task["other"].pc = "idle"
  /\ dev.task["other"].calls < MaxCalls
  /\ dev' = [dev EXCEPT !.task["other"].pc = op,
                        !.task["other"].calls = @ + 1,
                        !.task["other"].result = None]
  /\ UNCHANGED linker_vars

\* stop, start, load_code, read_perf_counters, do_dma_read, do_dma_write: the ioctl is
\* issued on file_fd (on file.as_raw_fd() in dm.rs); no lock is taken
ioctl(t) ==
  /\ dev.task[t].pc \in IoctlPoints
  /\ dev.task[t].request = None
  /\ LET req == IF t = "run" THEN RunRequest(dev.task[t].pc) ELSE [op |-> dev.task[t].pc]
     IN dev' = [dev EXCEPT !.task[t].request = Some(req), !.log = Logged(t, req)]
  /\ UNCHANGED linker_vars

\* cycles and commits are u64: end - start panics under overflow checks when it is negative
PerfDelta(start, end, oc) ==
  IF (end.cycles < start.cycles \/ end.commits < start.commits) /\ oc
  THEN Panic("attempt to subtract with overflow") ELSE Ok(<<>>)

\* the ioctl returns: `?` leaves the method on an error, otherwise it goes on
ioctl_return(t, ok, counters) ==
  /\ dev.task[t].request # None
  /\ dev.task[t].request[1].op # "read_exception_state"
  /\ LET p == dev.task[t].pc
     IN dev' =
          [dev EXCEPT !.task[t] =
             IF ~ok THEN Return(t, Err("ioctl"))
             ELSE IF t # "run" THEN Return(t, Ok(<<>>))
             ELSE IF p = "end_perfctr"
               THEN Return(t, PerfDelta(dev.task[t].perf[1], counters, overflow_checks))
             ELSE [dev.task[t] EXCEPT !.pc = AfterIoctl(p), !.request = None,
                                      !.perf = IF p = "start_perfctr" THEN Some(counters)
                                               ELSE @]]
  /\ UNCHANGED linker_vars

\* run between load_image and data_memory: the offset table, the entry point, the snapshot
offset_table_lookup ==
  /\ dev.task["run"].pc = "offset_table"
  /\ dev' =
       [dev EXCEPT !.task["run"] =
          IF ~RunState.offset_table THEN Return("run", Err("no offset table"))
          ELSE IF RunState.entry_point \notin DOMAIN RunImage.func_offsets
            THEN Return("run", Err("no entry point"))
          ELSE IF Len(RunState.registers) < 11
            THEN Return("run", Panic("index out of bounds"))
          ELSE [dev.task["run"] EXCEPT !.pc = "data_memory"]]
  /\ UNCHANGED linker_vars

\* self.data_memory().await?: DataMemory::new maps the descriptor
data_memory(ok) ==
  /\ dev.task["run"].pc = "data_memory"
  /\ dev' = [dev EXCEPT !.task["run"] =
               IF ok THEN [dev.task["run"] EXCEPT !.pc = "do_dma_write"]
               ELSE Return("run", Err("mmap"))]
  /\ UNCHANGED linker_vars

\* read_exception_state: self.file.lock().await
lock(t) ==
  /\ dev.task[t].pc \in ReadPoints
  /\ dev.file = None
  /\ dev' = [dev EXCEPT !.file = Some(t)]
  /\ UNCHANGED linker_vars

\* read_exception_state: the descriptor is readable and try_io calls read
read(t) ==
  /\ dev.file = Some(t)
  /\ dev.task[t].request = None
  /\ dev' = [dev EXCEPT !.task[t].request = Some([op |-> "read_exception_state"])]
  /\ UNCHANGED linker_vars

\* the read returns, read_exception_state returns and drops the guard; the loop of
\* stop_and_wait or of run tests the code of its PE
read_return(t, ok, es) ==
  /\ dev.file = Some(t)
  /\ dev.task[t].request # None
  /\ dev.task[t].request[1].op = "read_exception_state"
  /\ LET p == dev.task[t].pc
         code == es[RunState.pe_index + 1]
         leave == IF p = "stop_and_wait" THEN IsStopped(code) ELSE IsTerminated(code)
     IN /\ (t = "run" /\ ok) => (leave \/ dev.task[t].polls < MaxPolls)
        /\ dev' =
             [dev EXCEPT
                !.file = None,
                !.log = IF ok THEN Logged(t, [op |-> "read_exception_state", es |-> es])
                        ELSE @,
                !.task[t] =
                  IF ~ok THEN Return(t, Err("read"))
                  ELSE IF t # "run" THEN Return(t, Ok(<<>>))
                  ELSE IF leave
                    THEN [dev.task[t] EXCEPT
                            !.pc = IF p = "stop_and_wait" THEN "load_code"
                                   ELSE "end_perfctr",
                            !.request = None, !.polls = 0]
                  ELSE [dev.task[t] EXCEPT !.request = None, !.polls = @ + 1]]
  /\ UNCHANGED linker_vars

\* registers r0..r9 = 0..9, r10 with a non-zero high half
Registers == [i \in 1 .. 11 |-> IF i < 11 THEN Word(0, i - 1) ELSE Word(7, 512)]

\* MachineState, the PE, and whether the image file carried an offset table
MachineState(entry_point, registers, pe_index, table) ==
  [entry_point |-> entry_point, registers |-> registers, pe_index |-> pe_index,
   offset_table |-> table]

MachineStates ==
  {MachineState(e, Registers, pe, TRUE) : e \in {"xmain", "nowhere"}, pe \in {0, 1}}
    \cup {MachineState("xmain", SubSeq(Registers, 1, 10), 0, TRUE),
          MachineState("xmain", Registers, 0, FALSE)}

SingleOps ==
  {"stop", "start", "load_code", "read_perf_counters", "do_dma_read", "do_dma_write",
   "read_exception_state"}

InitRun ==
  \E oc \in BOOLEAN :
    InitWith(Input(<<ObjX>>, Config(0, HostHelpers, MachineHelpers, Some(<<"xmain">>)), oc))

NextRun ==
  \/ Next
  \/ \E state \in MachineStates : run(state)
  \/ \E op \in SingleOps : call(op)
  \/ \E t \in Tasks : ioctl(t)
  \/ \E t \in Tasks, ok \in BOOLEAN, counters \in PerfCounters : ioctl_return(t, ok, counters)
  \/ offset_table_lookup
  \/ \E ok \in BOOLEAN : data_memory(ok)
  \/ \E t \in Tasks : lock(t)
  \/ \E t \in Tasks : read(t)
  \/ \E t \in Tasks, ok \in BOOLEAN, es \in ExceptionStates : read_return(t, ok, es)

SpecRun == InitRun /\ [][NextRun]_vars

(***************************************************************************)
(* C26: in Device::run a start request for the PE is issued only after, in *)
(* this order, a stop request, an observation of exception code exactly    *)
(* 0x80000007 for that PE, the code load at offset 0 and the DMA write at  *)
(* data-memory offset 0 of eleven 64-bit words (words 0..9 = registers     *)
(* 0..9, word 10 = (registers[10] << 32) | func_offsets[entry_point]); run *)
(* returns success only after a later observation of a code with bit 31    *)
(* set; with entry_point absent from func_offsets run returns an error     *)
(* without writing data memory and without starting the PE.                *)
(***************************************************************************)
\* the requests run issued and the exception states it observed, oldest first
RunLog == dev.log

\* entry i of the log is an observation of `code` as the exception code of run's PE
Observed(i, accept(_)) ==
  /\ RunLog[i].op = "read_exception_state"
  /\ accept(RunLog[i].es[RunState.pe_index + 1])

\* the eleven words the claim names: the registers, then the entry offset under the
\* low half of register 10
ElevenWords(data) ==
  LET offset == RunImage.func_offsets[RunState.entry_point]
  IN /\ Len(data) = 11
     /\ \A k \in 1 .. 10 : data[k] = RunState.registers[k]
     /\ offset >= 0
     /\ data[11].lo = offset
     /\ data[11].hi = RunState.registers[11].lo

C26_StartOrdered ==
  \A i \in DOMAIN RunLog :
    RunLog[i].op = "start" =>
      /\ RunLog[i].pe_index = RunState.pe_index
      /\ \E a, b, c, d \in 1 .. i - 1 :
           /\ a < b /\ b < c /\ c < d
           /\ RunLog[a].op = "stop" /\ RunLog[a].pe_index = RunState.pe_index
           /\ Observed(b, LAMBDA code : code = StoppedIntr)
           /\ RunLog[c].op = "load_code" /\ RunLog[c].pe_index = RunState.pe_index
           /\ RunLog[c].offset = 0 /\ RunLog[c].code = RunImage.code
           /\ RunLog[d].op = "do_dma_write" /\ RunLog[d].offset = 0
           /\ RunState.entry_point \in DOMAIN RunImage.func_offsets
           /\ ElevenWords(RunLog[d].data)

C26_SuccessAfterHalt ==
  dev.task["run"].result = Ok(<<>>) =>
    \E i, j \in DOMAIN RunLog :
      /\ i < j
      /\ RunLog[i].op = "start"
      /\ Observed(j, LAMBDA code : code < 0)

C26_AbsentEntry ==
  (dev.state # None /\ RunState.entry_point \notin DOMAIN RunImage.func_offsets) =>
    /\ \A i \in DOMAIN RunLog : RunLog[i].op \notin {"do_dma_write", "start"}
    /\ dev.task["run"].pc = "returned" =>
         dev.task["run"].result \in {Err(e) : e \in {"ioctl", "read", "no entry point"}}

\* C26: run starts the PE only after stop, the 0x80000007 observation, the code load at 0
\* and the DMA write of the eleven words at 0, in this order; it returns Ok only after a
\* later observation with bit 31 set; an absent entry point is an Err with no DMA write
\* and no start
C26_RunOrder == C26_StartOrdered /\ C26_SuccessAfterHalt /\ C26_AbsentEntry

\* run returned Ok on PE 1 after it polled past a code of the other PE
C26_Witness ==
  /\ dev.task["run"].result = Ok(<<>>)
  /\ RunState.pe_index = 1
  /\ \E i \in DOMAIN RunLog : RunLog[i].op = "start"
  /\ \E i \in DOMAIN RunLog : RunLog[i].op = "read_exception_state" /\ RunLog[i].es[1] = StoppedIntr

\* run returned "no entry point"
C26_NoEntryPoint ==
  /\ dev.state # None
  /\ dev.task["run"].result = Err("no entry point")

(***************************************************************************)
(* C27: accesses to one open device descriptor are serialized: for tasks   *)
(* that share clones of the same Device no two of read_exception_state,    *)
(* load_code, stop, start, read_perf_counters and the data-memory DMA read *)
(* and write are in progress on the descriptor at the same time, and each  *)
(* holds the descriptor's mutex for the duration of its access.            *)
(***************************************************************************)
\* task t has a request on the descriptor that did not return yet
InProgress(t) == dev.task[t].request # None

\* C27: a request in progress on the descriptor holds the mutex, and no two requests of
\* tasks that share the Device are in progress at the same time
C27_Serialized ==
  \A t \in Tasks :
    InProgress(t) =>
      /\ dev.file = Some(t)
      /\ \A u \in Tasks \ {t} : ~InProgress(u)

\* what the mutex does give: a read of the exception state holds it, so no two such
\* reads are in progress together
C27_ReadsSerialized ==
  \A t \in Tasks :
    (InProgress(t) /\ dev.task[t].request[1].op = "read_exception_state") =>
      /\ dev.file = Some(t)
      /\ \A u \in Tasks \ {t} :
           InProgress(u) => dev.task[u].request[1].op # "read_exception_state"

\* run's start request and another task's DMA write are in progress together
C27_TwoInProgress ==
  /\ InProgress("run") /\ dev.task["run"].request[1].op = "start"
  /\ InProgress("other") /\ dev.task["other"].request[1].op = "do_dma_write"

\* a stop request is in progress while another task holds the mutex inside
\* read_exception_state
C27_StopUnderForeignLock ==
  /\ InProgress("other") /\ dev.task["other"].request[1].op = "stop"
  /\ dev.file = Some("run")

====
